---- MODULE Spec2Model ----
(***************************************************************************)
(* A model of the nove NES emulator core: the PPU timing and register      *)
(* state machine (ppu.rs and ppu/*.rs), the CPU address bus (memory/bus.rs) *)
(* and the 6502 core (core.rs and core/*.rs).                              *)
(*                                                                         *)
(* Every Rust method is a pure operator over a record of the object's      *)
(* fields; the operator returns the object after the call together with    *)
(* the returned value and whether the call panicked.  The actions apply    *)
(* the operators to the state variables.  Zero-initialised byte arrays are *)
(* kept sparse: a function from the indices holding a non-zero byte.       *)
(***************************************************************************)
EXTENDS Integers, Sequences, FiniteSets, TLC

VARIABLES
    bus,      \* memory/bus.rs Bus: [vram, prg_rom, ppu]
    core,     \* core.rs NoveCore: [pc, sp, a, x, y, ps, memory]
    pre,      \* history: the object (bus or core) as it was before the last call
    out,      \* the last call: [op, addr, val, ret, panic]
    nticks,   \* history: number of Ppu::tick calls so far
    nops,     \* history: number of calls other than Ppu::tick so far
    shadow    \* history: the stack exercise [mode, pushed, popped, pulling]

vars == <<bus, core, pre, out, nticks, nops, shadow>>

(***************************************************************************)
(* Bounds of the exploration.                                              *)
(***************************************************************************)
MaxFrames == 1      \* frames of 341*262 dots ticked in SpecTick
MaxBusTicks == 1    \* PPU dots ticked in a run of SpecBus
MaxOps == 2         \* bus reads and writes in a run of SpecBus
MaxRamOps == 3      \* bus reads and writes in a run of SpecRam
MaxPush == 2        \* pushes with a freely chosen byte in SpecStack
MaxCoreOps == 2     \* reset and get_addr calls in a run of SpecCore
MaxSteps == 4       \* turns of the run loop in a run of SpecRun
MaxDataOps == 4     \* ADDR writes and DATA reads and writes in a run of SpecData
MaxAddrOps == 3     \* update, inc and reset calls in a run of SpecAddr
MaxBusCalls == 2    \* Bus::tick calls in a run of SpecCycles
MaxCpuTicks == 3    \* CPU ticks in a run of SpecNmi
MaxNext == 65       \* TileReader::next calls in a run of SpecTile
MaxSetTiles == 2    \* Frame::set_tile calls in a run of SpecFrame
MaxDisplace == 2    \* Displacement::displace calls in a run of SpecDisplace
MaxStatusOps == 4   \* reset and the run-loop turns after it in a run of SpecStatus
MaxPrgReads == 2    \* PRG ROM reads in a run of SpecPrg
MaxPpuTicks == 2    \* PPU dots ticked in a run of SpecPpu
MaxPpuOps == 3      \* register reads and writes in a run of SpecPpu
MaxMemOps == 2      \* reads and writes in a run of SpecMem
MaxMirrorOps == 2   \* DATA reads and writes in a run of SpecMirror

NoVal == "none"     \* no address, value or return value

(***************************************************************************)
(* u8 / u16 bit operations.                                                *)
(***************************************************************************)
RECURSIVE And(_, _)
And(a, b) ==
    IF a = 0 \/ b = 0 THEN 0
    ELSE 2 * And(a \div 2, b \div 2) + (IF a % 2 = 1 /\ b % 2 = 1 THEN 1 ELSE 0)

RECURSIVE Or(_, _)
Or(a, b) ==
    IF a = 0 THEN b
    ELSE IF b = 0 THEN a
    ELSE 2 * Or(a \div 2, b \div 2) + (IF a % 2 = 1 \/ b % 2 = 1 THEN 1 ELSE 0)

Not8(a) == 255 - a

(***************************************************************************)
(* flag_register.rs: FlagRegister over one byte.                           *)
(***************************************************************************)
raise(reg, flag) == Or(reg, flag)
low(reg, flag) == And(reg, Not8(flag))
is_raised(reg, flag) == And(reg, flag) # 0

\* ppu/status_register.rs PpuStatusFlag, ppu/controller_register.rs ControlFlags
Sprite0Hit == \H40
VerticalBlankStarted == \H80
VramAddrIncrement == \H04
GenerateNMI == \H80

(***************************************************************************)
(* Sparse zero-initialised arrays [u8; size]: an index out of bounds       *)
(* panics in Rust, which the callers test against the array's size.         *)
(***************************************************************************)
Rd(arr, i) == IF i \in DOMAIN arr THEN arr[i] ELSE 0
Wr(arr, i, v) ==
    IF v = 0 THEN [j \in DOMAIN arr \ {i} |-> arr[j]]
    ELSE [j \in DOMAIN arr \cup {i} |-> IF j = i THEN v ELSE arr[j]]
Zeroes == [j \in {} |-> 0]

(***************************************************************************)
(* ppu.rs: timing constants and the PPU after Ppu::new.                    *)
(***************************************************************************)
SCANLINE_CYCLES == 341
NMI_SCANLINES == 241
SCANLINES_PER_FRAME == 262

Ppu_new(chr_len, mirroring) ==
    [ chr_rom |-> chr_len,        \* length of the CHR ROM vector (content: ChrByte)
      ctrl |-> 0, mask |-> 0, status |-> 0,
      oam |-> [addr |-> 0, data |-> Zeroes],
      scroll |-> [x |-> 0, y |-> 0, ptr |-> "X"],
      addr |-> [hi |-> 0, lo |-> 0, ptr |-> "Hi"],
      palette |-> Zeroes,
      vram |-> Zeroes,
      mirroring |-> mirroring,
      internal_data_buffer |-> 0,
      scanline |-> 0, cycles |-> 0,
      cpu_interrupt |-> "None" ]  \* content of the shared Rc<RefCell<InterruptFlag>>

\* Ppu::nmi_interruption
nmi_interruption(p, trigger) ==
    [p EXCEPT !.cpu_interrupt = IF trigger THEN "NMI" ELSE "None"]

\* vblank start that stores NMI whatever CTRL says
trigger_scanline_unconditional(q) ==
    [ ppu |-> nmi_interruption(
                  [q EXCEPT !.status = low(raise(@, VerticalBlankStarted), Sprite0Hit)],
                  TRUE),
      ret |-> FALSE ]

\* frame end that leaves the scanline counter at 262
attempt_close_scanline_no_wrap(q) ==
    [ ppu |-> [nmi_interruption(q, FALSE) EXCEPT !.status =
                  low(low(@, Sprite0Hit), VerticalBlankStarted)],
      ret |-> TRUE ]

\* Ppu::tick, scanline 241 reached: vblank starts
trigger_scanline(q) ==
    LET r == [q EXCEPT !.status = low(raise(@, VerticalBlankStarted), Sprite0Hit)]
    IN  [ ppu |-> IF is_raised(r.ctrl, GenerateNMI)
                      THEN nmi_interruption(r, TRUE) ELSE r,
          ret |-> FALSE ]

\* frame end that leaves the interrupt cell as it is
attempt_close_scanline_keeps_nmi(q) ==
    [ ppu |-> [q EXCEPT !.scanline = 0,
                        !.status = low(low(@, Sprite0Hit), VerticalBlankStarted)],
      ret |-> TRUE ]

\* frame end that leaves the vblank flag raised
attempt_close_scanline_keeps_vblank(q) ==
    [ ppu |-> [nmi_interruption([q EXCEPT !.scanline = 0], FALSE)
                  EXCEPT !.status = low(@, Sprite0Hit)],
      ret |-> TRUE ]

\* Ppu::tick, scanline 262 reached: the frame is complete
attempt_close_scanline(q) ==
    LET r == nmi_interruption([q EXCEPT !.scanline = 0], FALSE)
    IN  [ ppu |-> [r EXCEPT !.status =
                      low(low(@, Sprite0Hit), VerticalBlankStarted)],
          ret |-> TRUE ]

\* Ppu::tick: one dot; ret is the frame-complete signal
Ppu_tick(p) ==
    LET c == p.cycles + 1 IN
    IF c = SCANLINE_CYCLES THEN
        LET s == p.scanline + 1
            q == [p EXCEPT !.cycles = 0, !.scanline = s]
        IN  IF s = NMI_SCANLINES THEN trigger_scanline(q)
            ELSE IF s = SCANLINES_PER_FRAME THEN attempt_close_scanline(q)
            ELSE [ppu |-> q, ret |-> FALSE]
    ELSE [ppu |-> [p EXCEPT !.cycles = c], ret |-> FALSE]

(***************************************************************************)
(* addresses.rs: the PPU register window on the CPU bus and the PPU's own  *)
(* address space.                                                          *)
(***************************************************************************)
LIMIT == \H3FFF
CTRL == \H2000
MASK == \H2001
STATUS == \H2002
OAM_ADDR == \H2003
OAM_DATA == \H2004
SCROLL == \H2005
ADDR == \H2006
DATA == \H2007
OAM_DMA == \H4014
REGISTERS_START == \H2008
REGISTERS_MIRRORS_END == \H3FFF
VRAM_START == \H2000
VRAM_END == \H2FFF
PALETTE_START == \H3F00
PRG_ROM_START == \H8000
RAM_MIRRORS_END == \H1FFF

\* array sizes: ppu.rs VRAM_SIZE, palette_table.rs PALETTE_SIZE, oam.rs OAM_SIZE
VRAM_SIZE == 2048
PALETTE_SIZE == 32
NAMETABLE_SIZE == 1024
HALF_ROM_SIZE == 16384

\* The cartridge's immutable ROM content: byte i of CHR and of PRG ROM.
ChrByte(i) == (i * 7 + 3) % 256
\* (PRG bytes differ between the two 16 KiB halves)
PrgByte(i) == ((i * 5) + ((i \div 256) * 3) + 1) % 256

(***************************************************************************)
(* ppu/address_register.rs: AddressRegister {hi, lo, ptr}.                 *)
(***************************************************************************)
AddressRegister_get(r) == r.hi * 256 + r.lo

AddressRegister_set(r, val) == [r EXCEPT !.hi = val \div 256, !.lo = val % 256]

\* a mirror-down that lets 0x4000-0x7FFF through
mirror_down_from_8000(r) ==
    IF AddressRegister_get(r) > \H7FFF
        THEN AddressRegister_set(r, And(AddressRegister_get(r), LIMIT))
        ELSE r

mirror_down(r) ==
    IF AddressRegister_get(r) > LIMIT
        THEN AddressRegister_set(r, And(AddressRegister_get(r), LIMIT))
        ELSE r

\* an update that does not mirror down
AddressRegister_update_unmasked(r, val) ==
    LET w == IF r.ptr = "Hi" THEN [r EXCEPT !.hi = val] ELSE [r EXCEPT !.lo = val]
    IN  [w EXCEPT !.ptr = IF r.ptr = "Hi" THEN "Lo" ELSE "Hi"]

\* AddressRegister::update (RegWrite::write) with swap
AddressRegister_update(r, val) ==
    LET w == IF r.ptr = "Hi" THEN [r EXCEPT !.hi = val] ELSE [r EXCEPT !.lo = val]
    IN  [mirror_down(w) EXCEPT !.ptr = IF r.ptr = "Hi" THEN "Lo" ELSE "Hi"]

\* an inc that drops the carry out of the low byte
AddressRegister_inc_no_carry(r, val) == mirror_down([r EXCEPT !.lo = (@ + val) % 256])

AddressRegister_inc(r, val) ==
    LET sum == r.lo + val
        w == [r EXCEPT !.hi = IF sum > 255 THEN (@ + 1) % 256 ELSE @,
                       !.lo = sum % 256]
    IN  mirror_down(w)

AddressRegister_reset(r) == [r EXCEPT !.ptr = "Hi"]

(***************************************************************************)
(* ppu/scroll_register.rs: ScrollRegister {x, y, ptr}.                     *)
(***************************************************************************)
ScrollRegister_write(r, val) ==
    IF r.ptr = "X" THEN [r EXCEPT !.x = val, !.ptr = "Y"]
                   ELSE [r EXCEPT !.y = val, !.ptr = "X"]

\* ScrollRegister::reset is called by Ppu::read_status and has no source
ScrollRegister_reset(r) == [r EXCEPT !.ptr = "X"]

(***************************************************************************)
(* ppu/oam.rs and ppu/palette_table.rs.                                    *)
(***************************************************************************)
Oam_write(o, val) ==
    [o EXCEPT !.data = Wr(@, o.addr, val), !.addr = (@ + 1) % 256]

Oam_read(o) == Rd(o.data, o.addr)

\* an index that does not fold the universal background mirrors
PaletteTable_index_unmirrored(addr) == addr - PALETTE_START

\* the index PaletteTable::read / write resolve addr to
PaletteTable_index(addr) ==
    IF addr \in {\H3F10, \H3F14, \H3F18, \H3F1C}
        THEN addr - \H10 - PALETTE_START
        ELSE addr - PALETTE_START

(***************************************************************************)
(* ppu.rs: the register contracts.                                         *)
(***************************************************************************)
vram_add_inc(ctrl) == IF is_raised(ctrl, VramAddrIncrement) THEN 32 ELSE 1

inc_vram_addr(p) == [p EXCEPT !.addr = AddressRegister_inc(@, vram_add_inc(p.ctrl))]

\* an index that folds no nametable
mirror_vram_no_fold(p, addr) == And(addr, VRAM_END) - VRAM_START

mirror_vram(p, addr) ==
    LET vram == And(addr, VRAM_END) - VRAM_START
        name_table == vram \div NAMETABLE_SIZE
    IN  vram - ( IF p.mirroring = "Vertical" /\ name_table \in {2, 3}
                     THEN 2 * NAMETABLE_SIZE
                 ELSE IF p.mirroring = "Horizontal" /\ name_table \in {1, 2}
                     THEN NAMETABLE_SIZE
                 ELSE IF p.mirroring = "Horizontal" /\ name_table = 3
                     THEN 2 * NAMETABLE_SIZE
                 ELSE 0 )

Panic(p) == [ppu |-> p, ret |-> NoVal, panic |-> TRUE]

read_and_store(p, val) ==
    [ ppu |-> [p EXCEPT !.internal_data_buffer = val],
      ret |-> p.internal_data_buffer, panic |-> FALSE ]

Ppu_read_data(p) ==
    LET addr == AddressRegister_get(p.addr)
        q == inc_vram_addr(p)
    IN  IF addr < VRAM_START THEN
            IF addr < p.chr_rom THEN read_and_store(q, ChrByte(addr)) ELSE Panic(q)
        ELSE IF addr <= VRAM_END THEN
            IF mirror_vram(q, addr) < VRAM_SIZE
                THEN read_and_store(q, Rd(q.vram, mirror_vram(q, addr)))
                ELSE Panic(q)
        ELSE IF addr >= PALETTE_START /\ addr <= LIMIT THEN
            IF PaletteTable_index(addr) < PALETTE_SIZE
                THEN [ ppu |-> q, ret |-> Rd(q.palette, PaletteTable_index(addr)),
                       panic |-> FALSE ]
                ELSE Panic(q)
        ELSE Panic(q)

\* read_status without the call to self.addr.reset()
Ppu_read_status_keeps_latch(p) ==
    [ ppu |-> [p EXCEPT !.status = low(@, VerticalBlankStarted),
                        !.scroll = ScrollRegister_reset(@)],
      ret |-> p.status, panic |-> FALSE ]

Ppu_read_status(p) ==
    [ ppu |-> [p EXCEPT !.status = low(@, VerticalBlankStarted),
                        !.addr = AddressRegister_reset(@),
                        !.scroll = ScrollRegister_reset(@)],
      ret |-> p.status, panic |-> FALSE ]

\* write_to_ctrl without the test of the vertical blank flag
Ppu_write_to_ctrl_any_status(p, value) ==
    LET prev_gen_nmi == is_raised(p.ctrl, GenerateNMI)
        q == [p EXCEPT !.ctrl = value]
    IN  IF ~prev_gen_nmi /\ is_raised(q.ctrl, GenerateNMI)
            THEN nmi_interruption(q, TRUE)
            ELSE q

Ppu_write_to_ctrl(p, value) ==
    LET prev_gen_nmi == is_raised(p.ctrl, GenerateNMI)
        q == [p EXCEPT !.ctrl = value]
    IN  IF (~prev_gen_nmi /\ is_raised(q.ctrl, GenerateNMI))
           /\ is_raised(q.status, VerticalBlankStarted)
            THEN nmi_interruption(q, TRUE)
            ELSE q

Ppu_write_to_data(p, value) ==
    LET addr == AddressRegister_get(p.addr) IN
    IF addr < VRAM_START THEN
        [ppu |-> inc_vram_addr(p), ret |-> NoVal, panic |-> FALSE]
    ELSE IF addr <= VRAM_END THEN
        IF mirror_vram(p, addr) < VRAM_SIZE
            THEN [ ppu |-> inc_vram_addr(
                       [p EXCEPT !.vram = Wr(@, mirror_vram(p, addr), value)]),
                   ret |-> NoVal, panic |-> FALSE ]
            ELSE Panic(p)
    ELSE IF addr >= PALETTE_START /\ addr <= LIMIT THEN
        IF PaletteTable_index(addr) < PALETTE_SIZE
            THEN [ ppu |-> inc_vram_addr(
                       [p EXCEPT !.palette = Wr(@, PaletteTable_index(addr), value)]),
                   ret |-> NoVal, panic |-> FALSE ]
            ELSE Panic(p)
    ELSE Panic(p)

(***************************************************************************)
(* memory/bus.rs: Bus {vram, prg_rom, ppu}.  prg_rom is the length of the   *)
(* PRG ROM vector (content: PrgByte).                                      *)
(***************************************************************************)
Bus_new(rom) ==
    [ vram |-> Zeroes, prg_rom |-> rom.prg_rom,
      ppu |-> Ppu_new(rom.chr_rom, rom.screen_mirroring) ]

\* the bus after a call into its PPU
WithPpu(b, r) == [bus |-> [b EXCEPT !.ppu = r.ppu], ret |-> r.ret, panic |-> r.panic]

Done(b, ret) == [bus |-> b, ret |-> ret, panic |-> FALSE]

\* an access that answers zero where the code panics
Abort_answers_zero(b) == [bus |-> b, ret |-> 0, panic |-> FALSE]

Abort(b) == [bus |-> b, ret |-> NoVal, panic |-> TRUE]

\* read_rom folding every address into the first 16 KiB
read_rom_folds_always(b, addr) ==
    LET m == (addr - PRG_ROM_START) % HALF_ROM_SIZE
    IN  IF m < b.prg_rom THEN Done(b, PrgByte(m)) ELSE Abort(b)

read_rom(b, addr) ==
    LET a == addr - PRG_ROM_START
        m == IF b.prg_rom = HALF_ROM_SIZE /\ a >= HALF_ROM_SIZE
                 THEN a % HALF_ROM_SIZE ELSE a
    IN  IF m < b.prg_rom THEN Done(b, PrgByte(m)) ELSE Abort(b)

\* an index that keeps twelve bits of the address
ram_index_wide(addr) == And(addr, \HFFF)

\* the RAM cell of an address below 0x2000: addr & 0b111_1111_1111
ram_index(addr) == And(addr, \H7FF)

\* a fold that keeps the three low bits only
register_of_low_bits(addr) == And(addr, 7)

\* the register a mirror address folds to: addr & ppu::DATA
register_of(addr) == And(addr, DATA)

RECURSIVE Bus_read(_, _)
Bus_read(b, addr) ==
    IF addr <= RAM_MIRRORS_END THEN
        IF ram_index(addr) < VRAM_SIZE
            THEN Done(b, Rd(b.vram, ram_index(addr))) ELSE Abort(b)
    ELSE IF addr = STATUS THEN WithPpu(b, Ppu_read_status(b.ppu))
    ELSE IF addr = OAM_DATA THEN Done(b, Oam_read(b.ppu.oam))
    ELSE IF addr = DATA THEN WithPpu(b, Ppu_read_data(b.ppu))
    ELSE IF addr >= REGISTERS_START /\ addr <= REGISTERS_MIRRORS_END
        THEN Bus_read(b, register_of(addr))
    ELSE IF addr >= PRG_ROM_START THEN read_rom(b, addr)
    ELSE IF addr \in {CTRL, MASK, OAM_ADDR, SCROLL, ADDR, OAM_DMA} THEN Abort(b)
    ELSE Done(b, 0)

RECURSIVE Bus_write(_, _, _)
Bus_write(b, addr, value) ==
    IF addr <= RAM_MIRRORS_END THEN
        IF ram_index(addr) < VRAM_SIZE
            THEN Done([b EXCEPT !.vram = Wr(@, ram_index(addr), value)], NoVal)
            ELSE Abort(b)
    ELSE IF addr = CTRL
        THEN Done([b EXCEPT !.ppu = Ppu_write_to_ctrl(@, value)], NoVal)
    ELSE IF addr = MASK THEN Done([b EXCEPT !.ppu.mask = value], NoVal)
    ELSE IF addr = OAM_ADDR THEN Done([b EXCEPT !.ppu.oam.addr = value], NoVal)
    ELSE IF addr = OAM_DATA
        THEN Done([b EXCEPT !.ppu.oam = Oam_write(@, value)], NoVal)
    ELSE IF addr = SCROLL
        THEN Done([b EXCEPT !.ppu.scroll = ScrollRegister_write(@, value)], NoVal)
    ELSE IF addr = ADDR
        THEN Done([b EXCEPT !.ppu.addr = AddressRegister_update(@, value)], NoVal)
    ELSE IF addr = DATA THEN WithPpu(b, Ppu_write_to_data(b.ppu, value))
    ELSE IF addr >= REGISTERS_START /\ addr <= REGISTERS_MIRRORS_END
        THEN Bus_write(b, register_of(addr), value)
    ELSE IF addr = STATUS \/ addr >= PRG_ROM_START THEN Abort(b)
    ELSE Done(b, NoVal)

PPU_CYCLES_PER_CPU == 3

\* n calls of Ppu::tick, the frame-complete signals dropped; the calls that
\* stay inside the scanline only count dots and are taken in one stride
RECURSIVE Ppu_ticks(_, _)
Ppu_ticks(p, n) ==
    LET left == SCANLINE_CYCLES - p.cycles IN
    IF n < left THEN [p EXCEPT !.cycles = @ + n]
    ELSE Ppu_ticks(Ppu_tick([p EXCEPT !.cycles = @ + (left - 1)]).ppu, n - left)

\* Bus::tick(cpu_cycles): cpu_cycles * PPU_CYCLES_PER_CPU is a u8 product,
\* which panics on overflow in a build with overflow checks and wraps in a
\* build without (checked tells which)
Bus_tick(b, cpu_cycles, checked) ==
    LET dots == cpu_cycles * PPU_CYCLES_PER_CPU IN
    IF dots > 255 /\ checked THEN Abort(b)
    ELSE Done([b EXCEPT !.ppu = Ppu_ticks(@, dots % 256)], NoVal)

(***************************************************************************)
(* core/memory.rs: Memory([u8; MEMORY_SIZE]).  An index at or past         *)
(* MEMORY_SIZE is out of the array's bounds and panics.                    *)
(***************************************************************************)
MEMORY_SIZE == \HFFFF
PC_START_ADDR == \HFFFC

Value(v) == [ret |-> v, panic |-> FALSE]

OutOfBounds == [ret |-> NoVal, panic |-> TRUE]

Memory_read(m, addr) == IF addr < MEMORY_SIZE THEN Value(Rd(m, addr)) ELSE OutOfBounds

from_le_bytes(lo, hi) == lo + 256 * hi

Memory_read_u16(m, addr) ==
    LET lo == Memory_read(m, addr)
        hi == Memory_read(m, (addr + 1) % 65536)
    IN  IF lo.panic \/ hi.panic THEN OutOfBounds
        ELSE Value(from_le_bytes(lo.ret, hi.ret))

\* Memory::write: [mem, ret, panic]
Memory_write(m, addr, value) ==
    IF addr < MEMORY_SIZE THEN [mem |-> Wr(m, addr, value), ret |-> NoVal, panic |-> FALSE]
    ELSE [mem |-> m, ret |-> NoVal, panic |-> TRUE]

\* Memory::write_u16: the low byte, then the high byte at
\* addr.wrapping_add(1)
Memory_write_u16(m, addr, value) ==
    LET lo == Memory_write(m, addr, value % 256)
        hi == Memory_write(lo.mem, (addr + 1) % 65536, value \div 256)
    IN  IF lo.panic THEN lo ELSE hi

(***************************************************************************)
(* core/stack_pointer.rs: StackPointer(u8).                                *)
(***************************************************************************)
STACK_PAGE == \H0100
STACK_START == \HFF

StackPointer_get(sp) == Or(STACK_PAGE, sp)
StackPointer_next(sp) == (sp + 255) % 256
StackPointer_prev(sp) == (sp + 1) % 256

(***************************************************************************)
(* core.rs: NoveCore {pc, sp, a, x, y, ps, memory}.  NoveCore::new is the   *)
(* derived Default: StackPointer::default() is STACK_START and             *)
(* ProcessorStatus::default() is 0.                                        *)
(***************************************************************************)
NoveCore_new ==
    [pc |-> 0, sp |-> STACK_START, a |-> 0, x |-> 0, y |-> 0, ps |-> 0,
     memory |-> Zeroes]

reset(c) ==
    LET w == Memory_read_u16(c.memory, PC_START_ADDR) IN
    IF w.panic THEN [core |-> c, ret |-> NoVal, panic |-> TRUE]
    ELSE [ core |-> [c EXCEPT !.pc = w.ret, !.sp = STACK_START,
                              !.a = 0, !.x = 0, !.y = 0, !.ps = 0],
           ret |-> NoVal, panic |-> FALSE ]

next_byte(c) == Memory_read(c.memory, c.pc)

next_word(c) == Memory_read_u16(c.memory, c.pc)

\* the IND arm of get_addr, given the pointer word read at PC
get_addr_ind(c, address) ==
    IF address % 256 = \HFF THEN
        LET lo == Memory_read(c.memory, address)
            hi == Memory_read(c.memory, And(address, \HFF00))
        IN  IF lo.panic \/ hi.panic THEN OutOfBounds
            ELSE Value(from_le_bytes(lo.ret, hi.ret))
    ELSE Memory_read_u16(c.memory, address)

get_addr(c, mode) ==
    LET b == next_byte(c)
        w == next_word(c)
    IN  CASE mode = "IMM" -> Value(c.pc)
          [] mode = "REL" -> IF b.panic THEN b ELSE Value((c.pc + b.ret) % 65536)
          [] mode = "ZPG" -> b
          [] mode = "ZPX" -> IF b.panic THEN b ELSE Value((b.ret + c.x) % 256)
          [] mode = "ZPY" -> IF b.panic THEN b ELSE Value((b.ret + c.y) % 256)
          [] mode = "ABS" -> w
          [] mode = "ABX" -> IF w.panic THEN w ELSE Value((w.ret + c.x) % 65536)
          [] mode = "ABY" -> IF w.panic THEN w ELSE Value((w.ret + c.y) % 65536)
          [] mode = "IND" -> IF w.panic THEN w ELSE get_addr_ind(c, w.ret)
          [] mode = "IDX" -> IF b.panic THEN b
                             ELSE Memory_read_u16(c.memory, (b.ret + c.x) % 256)
          [] mode = "IDY" -> IF b.panic THEN b
                             ELSE Memory_read_u16(c.memory, (b.ret + c.y) % 256)
          [] mode \in {"IMP", "ACC"} -> Value(0)

stack_push(c, content) ==
    IF StackPointer_get(c.sp) < MEMORY_SIZE
        THEN [ core |-> [c EXCEPT !.memory = Wr(@, StackPointer_get(c.sp), content),
                                  !.sp = StackPointer_next(@)],
               ret |-> NoVal, panic |-> FALSE ]
        ELSE [core |-> c, ret |-> NoVal, panic |-> TRUE]

\* a pull that reads the cell before it moves the pointer
stack_pull_read_first(c) ==
    LET r == Memory_read(c.memory, StackPointer_get(c.sp)) IN
    [core |-> [c EXCEPT !.sp = StackPointer_prev(@)], ret |-> r.ret, panic |-> r.panic]

stack_pull(c) ==
    LET q == [c EXCEPT !.sp = StackPointer_prev(@)]
        r == Memory_read(q.memory, StackPointer_get(q.sp))
    IN  [core |-> q, ret |-> r.ret, panic |-> r.panic]

(***************************************************************************)
(* core/processor_status.rs: the flags of P (N V _ B D I Z C), the byte    *)
(* PHP pushes and the byte PLP keeps; flag_register.rs: get_bit, set_bit.  *)
(***************************************************************************)
StatusFlag ==
    [ Carry |-> \H01, Zero |-> \H02, Interrupt |-> \H04, Decimal |-> \H08,
      Break |-> \H10, One |-> \H20, Overflow |-> \H40, Negative |-> \H80 ]

OVERFLOW_MASK == \H80

get_bit(reg, flag) == IF is_raised(reg, flag) THEN 1 ELSE 0

set_bit(reg, flag, value) == IF value THEN raise(reg, flag) ELSE low(reg, flag)

get_for_push(ps) == Or(Or(ps, StatusFlag.One), StatusFlag.Break)

\* a pull that raises One and keeps Break as pulled
set_from_pull_keeps_break(ps, val) == raise(val, StatusFlag.One)

set_from_pull(ps, val) == low(raise(val, StatusFlag.One), StatusFlag.Break)

(***************************************************************************)
(* core.rs: the arithmetic and flag helpers of NoveCore.                   *)
(***************************************************************************)
update_z(c, value) == [c EXCEPT !.ps = set_bit(@, StatusFlag.Zero, value = 0)]

update_n(c, value) ==
    [c EXCEPT !.ps = set_bit(@, StatusFlag.Negative, And(value, \H80) # 0)]

update_v(c, value) ==
    [c EXCEPT !.ps = set_bit(@, StatusFlag.Overflow, And(value, \H40) # 0)]

update_zn(c, value) == update_n(update_z(c, value), value)

\* an adc that forgets the carry out of the first addition (carry-in + a)
adc_second_carry_only(c, m) ==
    LET first == (get_bit(c.ps, StatusFlag.Carry) + c.a) % 256
        result == (first + m) % 256
        ps1 == set_bit(c.ps, StatusFlag.Carry, first + m > 255)
    IN  [ core |-> [c EXCEPT !.ps = set_bit(ps1, StatusFlag.Overflow,
              And(Or(And(And(c.a, m), Not8(result)),
                     And(And(Not8(c.a), Not8(m)), result)), OVERFLOW_MASK) # 0)],
          ret |-> result ]

\* adc returns the sum and leaves Carry and Overflow in P; A is not assigned
adc(c, m) ==
    LET a == c.a
        first == get_bit(c.ps, StatusFlag.Carry) + a
        sum == (first % 256) + m
        result == sum % 256
        ps1 == set_bit(c.ps, StatusFlag.Carry, first > 255 \/ sum > 255)
    IN  [ core |-> [c EXCEPT !.ps = set_bit(ps1, StatusFlag.Overflow,
              And(Or(And(And(a, m), Not8(result)),
                     And(And(Not8(a), Not8(m)), result)), OVERFLOW_MASK) # 0)],
          ret |-> result ]

\* m.wrapping_neg().wrapping_sub(1)
sbc(c, m) == adc(c, (((256 - m) % 256) + 255) % 256)

bit_test(c, value) == update_v(update_n(update_z(c, And(c.a, value)), value), value)

\* displace with the carry of a rotation always entering at bit 0
displace_carry_into_bit0(kind, dir, carry, val) ==
    LET fill == IF kind = "Rotation" /\ carry THEN 1 ELSE 0 IN
    IF dir = "Left"
        THEN [v |-> ((val * 2) % 256) + fill, c |-> val \div 128 = 1]
        ELSE [v |-> Or(val \div 2, fill), c |-> val % 2 = 1]

\* core/ops.rs Displacement::displace; kind is "Shift" or "Rotation"
displace(kind, dir, carry, val) ==
    LET fill == IF kind = "Rotation" /\ carry THEN 1 ELSE 0 IN
    IF dir = "Left"
        THEN [v |-> ((val * 2) % 256) + fill, c |-> val \div 128 = 1]
        ELSE [v |-> (val \div 2) + 128 * fill, c |-> val % 2 = 1]

(***************************************************************************)
(* instruction.rs: CPU_OPCODES, one <<mnemonic, code, bytes, cycles,       *)
(* addressing_mode>> per OpCode::new / OpCode::unofficial, and the map    *)
(* OPCODES_MAP from code to entry; no code appears twice.                 *)
(***************************************************************************)
CPU_OPCODES ==
    <<
       <<"ADC", \H6D, 3, 4, "ABS">>, <<"ADC", \H7D, 3, 4, "ABX">>, <<"ADC", \H79, 3, 4, "ABY">>,
       <<"ADC", \H69, 2, 2, "IMM">>, <<"ADC", \H61, 2, 6, "IDX">>, <<"ADC", \H71, 2, 5, "IDY">>,
       <<"ADC", \H65, 2, 3, "ZPG">>, <<"ADC", \H75, 2, 4, "ZPX">>, <<"AND", \H2D, 3, 4, "ABS">>,
       <<"AND", \H3D, 3, 4, "ABX">>, <<"AND", \H39, 3, 4, "ABY">>, <<"AND", \H29, 2, 2, "IMM">>,
       <<"AND", \H21, 2, 6, "IDX">>, <<"AND", \H31, 2, 5, "IDY">>, <<"AND", \H25, 2, 3, "ZPG">>,
       <<"AND", \H35, 2, 4, "ZPX">>, <<"ASL", \H0A, 1, 2, "ACC">>, <<"ASL", \H0E, 3, 6, "ABS">>,
       <<"ASL", \H1E, 3, 7, "ABX">>, <<"ASL", \H06, 2, 5, "ZPG">>, <<"ASL", \H16, 2, 6, "ZPX">>,
       <<"BCC", \H90, 2, 2, "REL">>, <<"BCS", \HB0, 2, 2, "REL">>, <<"BEQ", \HF0, 2, 2, "REL">>,
       <<"BIT", \H2C, 3, 4, "ABS">>, <<"BIT", \H24, 2, 3, "ZPG">>, <<"BMI", \H30, 2, 2, "REL">>,
       <<"BNE", \HD0, 2, 2, "REL">>, <<"BPL", \H10, 2, 2, "REL">>, <<"BVC", \H50, 2, 2, "REL">>,
       <<"BVS", \H70, 2, 2, "REL">>, <<"BRK", \H00, 1, 7, "IMP">>, <<"CLC", \H18, 1, 2, "IMP">>,
       <<"CLD", \HD8, 1, 2, "IMP">>, <<"CLI", \H58, 1, 2, "IMP">>, <<"CLV", \HB8, 1, 2, "IMP">>,
       <<"CMP", \HCD, 3, 4, "ABS">>, <<"CMP", \HDD, 3, 4, "ABX">>, <<"CMP", \HD9, 3, 4, "ABY">>,
       <<"CMP", \HC9, 2, 2, "IMM">>, <<"CMP", \HC1, 2, 6, "IDX">>, <<"CMP", \HD1, 2, 5, "IDY">>,
       <<"CMP", \HC5, 2, 3, "ZPG">>, <<"CMP", \HD5, 2, 4, "ZPX">>, <<"CPX", \HEC, 3, 4, "ABS">>,
       <<"CPX", \HE0, 2, 2, "IMM">>, <<"CPX", \HE4, 2, 3, "ZPG">>, <<"CPY", \HCC, 3, 4, "ABS">>,
       <<"CPY", \HC0, 2, 2, "IMM">>, <<"CPY", \HC4, 2, 3, "ZPG">>, <<"DCP", \HCF, 3, 6, "ABS">>,
       <<"DCP", \HDF, 3, 7, "ABX">>, <<"DCP", \HDB, 3, 7, "ABY">>, <<"DCP", \HC3, 2, 8, "IDX">>,
       <<"DCP", \HD3, 2, 8, "IDY">>, <<"DCP", \HC7, 2, 5, "ZPG">>, <<"DCP", \HD7, 2, 6, "ZPX">>,
       <<"DEC", \HCE, 3, 6, "ABS">>, <<"DEC", \HDE, 3, 7, "ABX">>, <<"DEC", \HC6, 2, 5, "ZPG">>,
       <<"DEC", \HD6, 2, 6, "ZPX">>, <<"DEX", \HCA, 1, 2, "IMP">>, <<"DEY", \H88, 1, 2, "IMP">>,
       <<"EOR", \H4D, 3, 4, "ABS">>, <<"EOR", \H5D, 3, 4, "ABX">>, <<"EOR", \H59, 3, 4, "ABY">>,
       <<"EOR", \H49, 2, 2, "IMM">>, <<"EOR", \H41, 2, 6, "IDX">>, <<"EOR", \H51, 2, 5, "IDY">>,
       <<"EOR", \H45, 2, 3, "ZPG">>, <<"EOR", \H55, 2, 4, "ZPX">>, <<"INC", \HEE, 3, 6, "ABS">>,
       <<"INC", \HFE, 3, 7, "ABX">>, <<"INC", \HE6, 2, 5, "ZPG">>, <<"INC", \HF6, 2, 6, "ZPX">>,
       <<"INX", \HE8, 1, 2, "IMP">>, <<"INY", \HC8, 1, 2, "IMP">>, <<"ISB", \HEF, 3, 6, "ABS">>,
       <<"ISB", \HFF, 3, 7, "ABX">>, <<"ISB", \HFB, 3, 7, "ABY">>, <<"ISB", \HE3, 2, 8, "IDX">>,
       <<"ISB", \HF3, 2, 8, "IDY">>, <<"ISB", \HE7, 2, 5, "ZPG">>, <<"ISB", \HF7, 2, 6, "ZPX">>,
       <<"JMP", \H4C, 1, 3, "ABS">>, <<"JMP", \H6C, 1, 5, "IND">>, <<"JSR", \H20, 1, 6, "ABS">>,
       <<"LAX", \HAF, 3, 4, "ABS">>, <<"LAX", \HBF, 3, 4, "ABY">>, <<"LAX", \HA3, 2, 6, "IDX">>,
       <<"LAX", \HB3, 2, 5, "IDY">>, <<"LAX", \HA7, 2, 3, "ZPG">>, <<"LAX", \HB7, 2, 4, "ZPY">>,
       <<"LDA", \HAD, 3, 4, "ABS">>, <<"LDA", \HBD, 3, 4, "ABX">>, <<"LDA", \HB9, 3, 4, "ABY">>,
       <<"LDA", \HA1, 2, 6, "IDX">>, <<"LDA", \HB1, 2, 5, "IDY">>, <<"LDA", \HA9, 2, 2, "IMM">>,
       <<"LDA", \HA5, 2, 3, "ZPG">>, <<"LDA", \HB5, 2, 4, "ZPX">>, <<"LDX", \HAE, 3, 4, "ABS">>,
       <<"LDX", \HBE, 3, 4, "ABY">>, <<"LDX", \HA2, 2, 2, "IMM">>, <<"LDX", \HA6, 2, 3, "ZPG">>,
       <<"LDX", \HB6, 2, 4, "ZPY">>, <<"LDY", \HAC, 3, 4, "ABS">>, <<"LDY", \HBC, 3, 4, "ABX">>,
       <<"LDY", \HA0, 2, 2, "IMM">>, <<"LDY", \HA4, 2, 3, "ZPG">>, <<"LDY", \HB4, 2, 4, "ZPX">>,
       <<"LSR", \H4A, 1, 2, "ACC">>, <<"LSR", \H4E, 3, 6, "ABS">>, <<"LSR", \H5E, 3, 7, "ABX">>,
       <<"LSR", \H46, 2, 5, "ZPG">>, <<"LSR", \H56, 2, 6, "ZPX">>, <<"NOP", \HEA, 1, 2, "IMP">>,
       <<"NOP", \H1A, 1, 2, "IMP">>, <<"NOP", \H3A, 1, 2, "IMP">>, <<"NOP", \H5A, 1, 2, "IMP">>,
       <<"NOP", \H7A, 1, 2, "IMP">>, <<"NOP", \HDA, 1, 2, "IMP">>, <<"NOP", \HFA, 1, 2, "IMP">>,
       <<"NOP", \H80, 2, 2, "IMM">>, <<"NOP", \H04, 2, 3, "ZPG">>, <<"NOP", \H44, 2, 3, "ZPG">>,
       <<"NOP", \H64, 2, 3, "ZPG">>, <<"NOP", \H14, 2, 4, "ZPX">>, <<"NOP", \H34, 2, 4, "ZPX">>,
       <<"NOP", \H54, 2, 4, "ZPX">>, <<"NOP", \H74, 2, 4, "ZPX">>, <<"NOP", \HD4, 2, 4, "ZPX">>,
       <<"NOP", \HF4, 2, 4, "ZPX">>, <<"NOP", \H0C, 3, 4, "ABS">>, <<"NOP", \H1C, 3, 4, "ABX">>,
       <<"NOP", \H3C, 3, 4, "ABX">>, <<"NOP", \H5C, 3, 4, "ABX">>, <<"NOP", \H7C, 3, 4, "ABX">>,
       <<"NOP", \HDC, 3, 4, "ABX">>, <<"NOP", \HFC, 3, 4, "ABX">>, <<"ORA", \H0D, 3, 4, "ABS">>,
       <<"ORA", \H1D, 3, 4, "ABX">>, <<"ORA", \H19, 3, 4, "ABY">>, <<"ORA", \H09, 2, 2, "IMM">>,
       <<"ORA", \H01, 2, 6, "IDX">>, <<"ORA", \H11, 2, 5, "IDY">>, <<"ORA", \H05, 2, 3, "ZPG">>,
       <<"ORA", \H15, 2, 4, "ZPX">>, <<"PHA", \H48, 1, 3, "IMP">>, <<"PHP", \H08, 1, 3, "IMP">>,
       <<"PLA", \H68, 1, 4, "IMP">>, <<"PLP", \H28, 1, 4, "IMP">>, <<"ROL", \H2A, 1, 2, "ACC">>,
       <<"ROL", \H2E, 3, 6, "ABS">>, <<"ROL", \H3E, 3, 7, "ABX">>, <<"ROL", \H26, 2, 5, "ZPG">>,
       <<"ROL", \H36, 2, 6, "ZPX">>, <<"ROR", \H6A, 1, 2, "ACC">>, <<"ROR", \H6E, 3, 6, "ABS">>,
       <<"ROR", \H7E, 3, 7, "ABX">>, <<"ROR", \H66, 2, 5, "ZPG">>, <<"ROR", \H76, 2, 6, "ZPX">>,
       <<"RTI", \H40, 1, 6, "IMP">>, <<"RTS", \H60, 1, 6, "IMP">>, <<"SAX", \H8F, 3, 4, "ABS">>,
       <<"SAX", \H83, 2, 6, "IDX">>, <<"SAX", \H87, 2, 3, "ZPG">>, <<"SAX", \H97, 2, 4, "ZPY">>,
       <<"SBC", \HED, 3, 4, "ABS">>, <<"SBC", \HFD, 3, 4, "ABX">>, <<"SBC", \HF9, 3, 4, "ABY">>,
       <<"SBC", \HE9, 2, 2, "IMM">>, <<"SBC", \HE1, 2, 6, "IDX">>, <<"SBC", \HF1, 2, 5, "IDY">>,
       <<"SBC", \HE5, 2, 3, "ZPG">>, <<"SBC", \HF5, 2, 4, "ZPX">>, <<"SBC", \HEB, 2, 2, "IMM">>,
       <<"SEC", \H38, 1, 2, "IMP">>, <<"SED", \HF8, 1, 2, "IMP">>, <<"SEI", \H78, 1, 2, "IMP">>,
       <<"STA", \H8D, 3, 4, "ABS">>, <<"STA", \H9D, 3, 5, "ABX">>, <<"STA", \H99, 3, 5, "ABY">>,
       <<"STA", \H81, 2, 6, "IDX">>, <<"STA", \H91, 2, 6, "IDY">>, <<"STA", \H85, 2, 3, "ZPG">>,
       <<"STA", \H95, 2, 4, "ZPX">>, <<"STX", \H8E, 3, 4, "ABS">>, <<"STX", \H86, 2, 3, "ZPG">>,
       <<"STX", \H96, 2, 4, "ZPY">>, <<"STY", \H8C, 3, 4, "ABS">>, <<"STY", \H84, 2, 3, "ZPG">>,
       <<"STY", \H94, 2, 4, "ZPX">>, <<"TAX", \HAA, 1, 2, "IMP">>, <<"TAY", \HA8, 1, 2, "IMP">>,
       <<"TSX", \HBA, 1, 2, "IMP">>, <<"TXA", \H8A, 1, 2, "IMP">>, <<"TXS", \H9A, 1, 2, "IMP">>,
       <<"TYA", \H98, 1, 2, "IMP">>
    >>

OPCODES_MAP ==
    [ code \in {CPU_OPCODES[i][2] : i \in 1 .. Len(CPU_OPCODES)} |->
        LET o == CPU_OPCODES[CHOOSE i \in 1 .. Len(CPU_OPCODES) : CPU_OPCODES[i][2] = code]
        IN  [mnemonic |-> o[1], code |-> o[2], bytes |-> o[3], cycles |-> o[4],
             addressing_mode |-> o[5]] ]

(***************************************************************************)
(* core.rs NoveCore::run: one turn of 'game_loop.  A memory index out of   *)
(* bounds panics; `pc += n` past 0xFFFF panics in a build with overflow    *)
(* checks and wraps in a build without (checked tells which).              *)
(***************************************************************************)
RECURSIVE Xor(_, _)
Xor(a, b) ==
    IF a = 0 THEN b
    ELSE IF b = 0 THEN a
    ELSE 2 * Xor(a \div 2, b \div 2) + (IF a % 2 = b % 2 THEN 0 ELSE 1)

Ok(c) == [core |-> c, panic |-> FALSE]

CoreCrash(c) == [core |-> c, panic |-> TRUE]

\* memory.write(addr, v)
Store(c, addr, v) ==
    IF addr < MEMORY_SIZE THEN Ok([c EXCEPT !.memory = Wr(@, addr, v)])
    ELSE CoreCrash(c)

\* compare!: reg.overflowing_sub(m) gives (result, borrow), m the byte read
compare(c, reg, m) ==
    update_zn([c EXCEPT !.ps = set_bit(@, StatusFlag.Carry, reg < m)],
              (reg + 256 - m) % 256)

\* displace! on the accumulator
displace_acc(c, kind, dir) ==
    LET d == displace(kind, dir, is_raised(c.ps, StatusFlag.Carry), c.a) IN
    Ok(update_zn([c EXCEPT !.ps = set_bit(@, StatusFlag.Carry, d.c), !.a = d.v], d.v))

\* displace! on the memory cell at addr
displace_mem(c, kind, dir, addr) ==
    LET r == Memory_read(c.memory, addr)
        d == displace(kind, dir, is_raised(c.ps, StatusFlag.Carry), r.ret)
    IN  IF r.panic THEN CoreCrash(c)
        ELSE Ok(update_zn([c EXCEPT !.ps = set_bit(@, StatusFlag.Carry, d.c),
                                    !.memory = Wr(@, addr, d.v)], d.v))

branch_if(c, condition, addr) == IF condition THEN [c EXCEPT !.pc = addr] ELSE c

\* op_and_assign!: the register gets val, then update_zn(register)
assign_zn(c, reg, val) ==
    update_zn(CASE reg = "a" -> [c EXCEPT !.a = val]
                [] reg = "x" -> [c EXCEPT !.x = val]
                [] reg = "y" -> [c EXCEPT !.y = val], val)

\* the mnemonics whose arm starts with self.memory.read(addr)
Operands == {"ADC", "SBC", "AND", "EOR", "ORA", "LDA", "LDX", "LDY", "BIT",
             "CMP", "CPX", "CPY"}

\* the arm of `match opcode.mnemonic` for every mnemonic run handles but BRK
execute(c, opcode, addr) ==
    LET mn == opcode.mnemonic
        acc == opcode.addressing_mode = "ACC"
        F == StatusFlag
        carry == is_raised(c.ps, F.Carry)
        r == Memory_read(c.memory, addr)
        m == r.ret
    IN  IF mn \in Operands /\ r.panic THEN CoreCrash(c) ELSE
        CASE mn = "ADC" -> Ok(assign_zn(adc(c, m).core, "a", adc(c, m).ret))
          [] mn = "SBC" -> Ok(assign_zn(sbc(c, m).core, "a", sbc(c, m).ret))
          [] mn = "AND" -> Ok(assign_zn(c, "a", And(c.a, m)))
          [] mn = "EOR" -> Ok(assign_zn(c, "a", Xor(c.a, m)))
          [] mn = "ORA" -> Ok(assign_zn(c, "a", Or(c.a, m)))
          [] mn = "LDA" -> Ok(assign_zn(c, "a", m))
          [] mn = "LDX" -> Ok(assign_zn(c, "x", m))
          [] mn = "LDY" -> Ok(assign_zn(c, "y", m))
          [] mn = "BIT" -> Ok(bit_test(c, m))
          [] mn = "CMP" -> Ok(compare(c, c.a, m))
          [] mn = "CPX" -> Ok(compare(c, c.x, m))
          [] mn = "CPY" -> Ok(compare(c, c.y, m))
          [] mn = "ASL" -> IF acc THEN displace_acc(c, "Shift", "Left")
                           ELSE displace_mem(c, "Shift", "Left", addr)
          [] mn = "ROL" -> IF acc THEN displace_acc(c, "Rotation", "Left")
                           ELSE displace_mem(c, "Rotation", "Left", addr)
          [] mn = "ROR" -> IF acc THEN displace_acc(c, "Rotation", "Right")
                           ELSE displace_mem(c, "Rotation", "Right", addr)
          [] mn = "BCC" -> Ok(branch_if(c, ~carry, addr))
          [] mn = "BCS" -> Ok(branch_if(c, carry, addr))
          [] mn = "BEQ" -> Ok(branch_if(c, is_raised(c.ps, F.Zero), addr))
          [] mn = "BNE" -> Ok(branch_if(c, ~is_raised(c.ps, F.Zero), addr))
          [] mn = "BMI" -> Ok(branch_if(c, is_raised(c.ps, F.Negative), addr))
          [] mn = "BPL" -> Ok(branch_if(c, ~is_raised(c.ps, F.Negative), addr))
          [] mn = "BVC" -> Ok(branch_if(c, ~is_raised(c.ps, F.Overflow), addr))
          [] mn = "CLC" -> Ok([c EXCEPT !.ps = set_bit(@, F.Carry, FALSE)])
          [] mn = "CLV" -> Ok([c EXCEPT !.ps = set_bit(@, F.Overflow, FALSE)])
          [] mn = "SEC" -> Ok([c EXCEPT !.ps = set_bit(@, F.Carry, TRUE)])
          [] mn = "SEI" -> Ok([c EXCEPT !.ps = set_bit(@, F.Interrupt, TRUE)])
          [] mn = "DEX" -> Ok(assign_zn(c, "x", (c.x + 255) % 256))
          [] mn = "INX" -> Ok(assign_zn(c, "x", (c.x + 1) % 256))
          [] mn = "INC" -> IF r.panic THEN CoreCrash(c)
                           ELSE Ok(update_zn([c EXCEPT !.memory = Wr(@, addr, (m + 1) % 256)],
                                             (m + 1) % 256))
          [] mn = "JMP" -> Ok([c EXCEPT !.pc = addr])
          [] mn = "NOP" -> Ok(c)
          [] mn = "PHA" -> stack_push(c, c.a)
          [] mn = "PHP" -> stack_push(c, get_for_push(c.ps))
          [] mn = "PLA" -> LET t == stack_pull(c) IN
                           IF t.panic THEN CoreCrash(c)
                           ELSE Ok(assign_zn(t.core, "a", t.ret))
          [] mn = "PLP" -> LET t == stack_pull(c) IN
                           IF t.panic THEN CoreCrash(c)
                           ELSE Ok([t.core EXCEPT !.ps = set_from_pull(@, t.ret)])
          [] mn = "STA" -> Store(c, addr, c.a)
          [] mn = "STX" -> Store(c, addr, c.x)
          [] mn = "STY" -> Store(c, addr, c.y)
          [] mn = "TAX" -> Ok(assign_zn(c, "x", c.a))
          [] mn = "TAY" -> Ok(assign_zn(c, "y", c.a))
          [] mn = "TXA" -> Ok(assign_zn(c, "a", c.x))
          [] mn = "TYA" -> Ok(assign_zn(c, "a", c.y))

\* update_pc: pc += opcode.bytes - 1
update_pc(c, opcode, checked) ==
    LET n == c.pc + opcode.bytes - 1 IN
    IF n > \HFFFF /\ checked THEN CoreCrash(c) ELSE Ok([c EXCEPT !.pc = n % 65536])

\* an error that carries the byte after the one fetched
WrongOpCode_of_operand(c, byte) ==
    [core |-> c, ret |-> "WrongOpCode", val |-> Rd(c.memory, c.pc), panic |-> FALSE]

\* ok_or(Exception::WrongOpCode(byte))?: run returns the error
WrongOpCode(c, byte) ==
    [core |-> c, ret |-> "WrongOpCode", val |-> byte, panic |-> FALSE]

\* a BRK that pushes PC and P | 0x30 and loads PC from 0xFFFE
break_game_loop_vectored(c) ==
    LET p1 == stack_push(c, c.pc \div 256)
        p2 == stack_push(p1.core, c.pc % 256)
        p3 == stack_push(p2.core, get_for_push(c.ps))
        w == Memory_read_u16(c.memory, \HFFFE)
    IN  [core |-> [p3.core EXCEPT !.pc = w.ret,
                                  !.ps = raise(@, StatusFlag.Interrupt)],
         ret |-> "halt", val |-> NoVal, panic |-> FALSE]

\* BRK => break 'game_loop: run returns Ok(())
break_game_loop(c) == [core |-> c, ret |-> "halt", val |-> NoVal, panic |-> FALSE]

\* ret is "next" when the loop goes on, "halt" on BRK (Ok(())) and
\* "WrongOpCode" on a byte without an entry (Err, val is the byte)
step(c, checked) ==
    LET f == Memory_read(c.memory, c.pc)
        c1 == [c EXCEPT !.pc = c.pc + 1]
        opcode == OPCODES_MAP[f.ret]
        addr == get_addr(c1, opcode.addressing_mode)
        e == execute(c1, opcode, addr.ret)
        u == update_pc(e.core, opcode, checked)
        end(k, r, v, p) == [core |-> k, ret |-> r, val |-> v, panic |-> p]
    IN  IF f.panic THEN end(c, NoVal, NoVal, TRUE)
        ELSE IF f.ret \notin DOMAIN OPCODES_MAP THEN WrongOpCode(c1, f.ret)
        ELSE IF addr.panic THEN end(c1, NoVal, NoVal, TRUE)
        ELSE IF opcode.mnemonic = "BRK" THEN break_game_loop(c1)
        ELSE IF e.panic \/ u.panic THEN end(c1, NoVal, NoVal, TRUE)
        ELSE end(u.core, "next", NoVal, FALSE)

(***************************************************************************)
(* The cartridge the bus specifications run: 16 KiB of PRG ROM, 8 KiB of   *)
(* CHR ROM.                                                                *)
(***************************************************************************)
Cartridge == [prg_rom |-> HALF_ROM_SIZE, chr_rom |-> 8192, screen_mirroring |-> "Horizontal"]

NoCall == [op |-> "new", addr |-> NoVal, val |-> NoVal, ret |-> NoVal, panic |-> FALSE]

(***************************************************************************)
(* Actions on the bus and its PPU.                                         *)
(***************************************************************************)
\* Ppu::tick on the bus's PPU
Tick(max) ==
    /\ ~out.panic
    /\ nticks < max
    /\ LET r == Ppu_tick(bus.ppu) IN
        /\ bus' = [bus EXCEPT !.ppu = r.ppu]
        /\ out' = [op |-> "tick", addr |-> NoVal, val |-> NoVal,
                   ret |-> r.ret, panic |-> FALSE]
    /\ pre' = bus
    /\ nticks' = nticks + 1
    /\ UNCHANGED <<core, nops, shadow>>

\* Bus::read(addr); a panic ends the run
Read(addr, max) ==
    /\ ~out.panic
    /\ nops < max
    /\ LET r == Bus_read(bus, addr) IN
        /\ bus' = r.bus
        /\ out' = [op |-> "read", addr |-> addr, val |-> NoVal,
                   ret |-> r.ret, panic |-> r.panic]
    /\ pre' = bus
    /\ nops' = nops + 1
    /\ UNCHANGED <<core, nticks, shadow>>

\* Bus::write(addr, value); a panic ends the run
Write(addr, value, max) ==
    /\ ~out.panic
    /\ nops < max
    /\ LET r == Bus_write(bus, addr, value) IN
        /\ bus' = r.bus
        /\ out' = [op |-> "write", addr |-> addr, val |-> value,
                   ret |-> r.ret, panic |-> r.panic]
    /\ pre' = bus
    /\ nops' = nops + 1
    /\ UNCHANGED <<core, nticks, shadow>>

(***************************************************************************)
(* SpecTick: a fresh PPU ticked dot by dot with no register access; CTRL   *)
(* is the byte the program stored before the first dot.                    *)
(***************************************************************************)
TickCtrl == {\H00, \H80}

FrameTicks == SCANLINE_CYCLES * SCANLINES_PER_FRAME

InitTick ==
    /\ \E c \in TickCtrl : bus = [Bus_new(Cartridge) EXCEPT !.ppu.ctrl = c]
    /\ pre = bus
    /\ out = NoCall
    /\ nticks = 0
    /\ nops = 0
    /\ core = NoveCore_new
    /\ shadow = NoVal

PpuTick == Tick(MaxFrames * FrameTicks)

NextTick == PpuTick

SpecTick == InitTick /\ [][NextTick]_vars

\* C1: from the fresh PPU, a tick returns true exactly when it is the last of
\* 341*262 consecutive ticks, it leaves (scanline, dot) at (0, 0), and every
\* other tick returns false.
C1_FrameSignal ==
    out.op = "tick" =>
        /\ out.ret = (nticks % (341 * 262) = 0)
        /\ (nticks % (341 * 262) = 0 =>
                bus.ppu.scanline = 0 /\ bus.ppu.cycles = 0)

C1_Witness ==
    /\ out.op = "tick" /\ out.ret = TRUE /\ nticks = 341 * 262
    /\ bus.ppu.scanline = 0 /\ bus.ppu.cycles = 0

\* C2: with no register access, the interrupt cell is None after each of the
\* first 341*241 - 1 ticks; tick number 341*241 raises the vblank flag and
\* leaves the cell at NMI when CTRL bit 7 is set, at None when it is clear.
C2_NmiAtVblank ==
    LET gen == bus.ppu.ctrl \div 128 = 1 IN
    /\ (nticks < 341 * 241 => bus.ppu.cpu_interrupt = "None")
    /\ (nticks = 341 * 241 =>
            /\ bus.ppu.status \div 128 = 1
            /\ pre.ppu.status \div 128 = 0
            /\ bus.ppu.cpu_interrupt = IF gen THEN "NMI" ELSE "None")
    /\ (~gen => bus.ppu.cpu_interrupt = "None")

C2_Witness ==
    /\ nticks = 341 * 241 /\ bus.ppu.ctrl = \H80
    /\ pre.ppu.cpu_interrupt = "None" /\ bus.ppu.cpu_interrupt = "NMI"
    /\ bus.ppu.status = \H80

(***************************************************************************)
(* SpecBus: the PPU register window driven by bus reads and writes, with   *)
(* PPU dots in between.  The run starts either at the fresh PPU or one dot *)
(* before vblank (scanline 240, dot 340), the position the fresh PPU is in *)
(* after 341*241 - 1 dots.                                                 *)
(***************************************************************************)
BusStarts == {[scanline |-> 0, cycles |-> 0], [scanline |-> 240, cycles |-> 340]}

BusAddrs == (CTRL .. DATA) \cup {\H200A, \H3FFE}

BusVals == {\H3F, \HA4}

InitBus ==
    /\ \E s \in BusStarts :
          bus = [Bus_new(Cartridge) EXCEPT !.ppu.scanline = s.scanline,
                                           !.ppu.cycles = s.cycles]
    /\ pre = bus
    /\ out = NoCall
    /\ nticks = 0
    /\ nops = 0
    /\ core = NoveCore_new
    /\ shadow = NoVal

BusTick == Tick(MaxBusTicks)

BusRead == \E a \in BusAddrs : Read(a, MaxOps)

BusWrite == \E a \in BusAddrs, v \in BusVals : Write(a, v, MaxOps)

NextBus == BusTick \/ BusRead \/ BusWrite

SpecBus == InitBus /\ [][NextBus]_vars

\* bytes and register-window addresses the formulas probe each state with
ProbeBytes == {\H00, \H01, \H3F, \H40, \H7F, \H80, \HC0, \HFF}

ProbeBanks == {1, \H2AA, \H3FF}

Mirrors == {\H2000 + 8 * k + r : k \in ProbeBanks, r \in 0 .. 7}

InWindow(a) == a >= \H2000 /\ a <= \H3FFF

\* two calls ended the same way: both panicked or neither, same bus, same value
SameOutcome(r1, r2) == r1.panic = r2.panic /\ r1.bus = r2.bus /\ r1.ret = r2.ret

\* C3: read_status returns the status byte as it was, lowers only the vblank
\* flag and points both double-write toggles at their first byte, so the next
\* two ADDR writes h, l give ((h << 8) | l) & 0x3FFF whatever was written before.
C3_ReadStatus ==
    /\ \A st \in ProbeBytes :
          LET r == Ppu_read_status([bus.ppu EXCEPT !.status = st]) IN
          /\ ~r.panic /\ r.ret = st
          /\ r.ppu.status = st % 128
          /\ r.ppu.addr.ptr = "Hi" /\ r.ppu.scroll.ptr = "X"
    /\ (out.op = "read" /\ InWindow(out.addr) /\ out.addr % 8 = 2) =>
          /\ ~out.panic /\ out.ret = pre.ppu.status
          /\ bus.ppu.status = pre.ppu.status % 128
          /\ bus.ppu.addr.ptr = "Hi" /\ bus.ppu.scroll.ptr = "X"
          /\ \A h \in ProbeBytes, l \in ProbeBytes :
                LET w == Bus_write(Bus_write(bus, \H2006, h).bus, \H2006, l) IN
                /\ ~w.panic
                /\ AddressRegister_get(w.bus.ppu.addr) = (h * 256 + l) % 16384

C3_Witness ==
    /\ out.op = "read" /\ out.addr = \H2002 /\ out.ret = \H80
    /\ pre.ppu.addr.ptr = "Lo" /\ bus.ppu.addr.ptr = "Hi"
    /\ bus.ppu.status = 0

\* C4: write_to_ctrl(v) stores NMI into the interrupt cell exactly when CTRL
\* bit 7 was 0, bit 7 of v is 1 and the vblank flag is raised; otherwise the
\* cell is left as it was.
C4_CtrlNmiEdge ==
    (out.op = "write" /\ InWindow(out.addr) /\ out.addr % 8 = 0) =>
        LET edge == /\ pre.ppu.ctrl \div 128 = 0
                    /\ out.val \div 128 = 1
                    /\ pre.ppu.status \div 128 = 1
        IN  /\ ~out.panic
            /\ bus.ppu.ctrl = out.val
            /\ bus.ppu.cpu_interrupt =
                   IF edge THEN "NMI" ELSE pre.ppu.cpu_interrupt

C4_Witness ==
    /\ out.op = "write" /\ out.addr = \H2000 /\ out.val = \HA4
    /\ pre.ppu.ctrl = \H3F /\ pre.ppu.status = \H80
    /\ pre.ppu.cpu_interrupt = "None" /\ bus.ppu.cpu_interrupt = "NMI"

\* C5: in the window 0x2000-0x3FFF a read of CTRL, MASK, OAMADDR, SCROLL or
\* ADDR (a & 7 in {0,1,3,5,6}) and a write of STATUS (a & 7 = 2) panic: no
\* value is returned and neither the PPU nor the RAM changes.
C5_InvalidAccessPanics ==
    /\ \A a \in (CTRL .. DATA) \cup Mirrors :
          /\ a % 8 \in {0, 1, 3, 5, 6} =>
                LET r == Bus_read(bus, a) IN
                r.panic /\ r.ret = NoVal /\ r.bus = bus
          /\ a % 8 = 2 =>
                \A v \in BusVals :
                    LET w == Bus_write(bus, a, v) IN
                    w.panic /\ w.ret = NoVal /\ w.bus = bus
    /\ (out.op = "read" /\ InWindow(out.addr) /\ out.addr % 8 \in {0, 1, 3, 5, 6}) =>
          out.panic /\ out.ret = NoVal /\ bus = pre
    /\ (out.op = "write" /\ InWindow(out.addr) /\ out.addr % 8 = 2) =>
          out.panic /\ out.ret = NoVal /\ bus = pre

C5_Witness ==
    /\ out.op = "read" /\ out.addr = \H3FFE /\ out.panic
    /\ pre.ppu.addr.ptr = "Lo" /\ pre.ppu.status = \H80 /\ bus = pre

\* C6: a read or write of a mirror address a in 0x2008-0x3FFF has the result
\* and the effect on the bus of the same access to 0x2000 + (a & 7).
C6_RegisterMirrors ==
    /\ \A a \in Mirrors :
          /\ SameOutcome(Bus_read(bus, a), Bus_read(bus, \H2000 + (a % 8)))
          /\ \A v \in BusVals :
                SameOutcome(Bus_write(bus, a, v), Bus_write(bus, \H2000 + (a % 8), v))
    /\ (out.op = "read" /\ InWindow(out.addr)) =>
          LET r == Bus_read(pre, \H2000 + (out.addr % 8)) IN
          out.panic = r.panic /\ bus = r.bus /\ out.ret = r.ret
    /\ (out.op = "write" /\ InWindow(out.addr)) =>
          LET w == Bus_write(pre, \H2000 + (out.addr % 8), out.val) IN
          out.panic = w.panic /\ bus = w.bus /\ out.ret = w.ret

C6_Witness ==
    /\ out.op = "write" /\ out.addr = \H3FFE /\ out.val = \H3F /\ ~out.panic
    /\ pre.ppu.addr.ptr = "Hi" /\ bus.ppu.addr.ptr = "Lo"
    /\ bus.ppu.addr.hi = \H3F /\ pre.ppu.addr.hi = 0
    /\ pre.ppu.status = \H80

(***************************************************************************)
(* SpecRam: a fresh bus whose RAM window 0x0000-0x1FFF is written and read  *)
(* at cells and mirrors of cells; a write to a PPU register runs between.  *)
(***************************************************************************)
RamAddrs == {\H0000, \H07FF, \H0800, \H1001, \H17FF, \H1FFF}

RamVals == {\H5A, \HA5}

InitRam ==
    /\ bus = Bus_new(Cartridge)
    /\ pre = bus
    /\ out = NoCall
    /\ nticks = 0
    /\ nops = 0
    /\ core = NoveCore_new
    /\ shadow = NoVal

RamRead == \E a \in RamAddrs : Read(a, MaxRamOps)

RamWrite == \E a \in RamAddrs \cup {MASK}, v \in RamVals : Write(a, v, MaxRamOps)

NextRam == RamRead \/ RamWrite

SpecRam == InitRam /\ [][NextRam]_vars

\* the four addresses of each probed cell
RamProbes == {c + 2048 * k : c \in {\H000, \H001, \H3FF, \H400, \H7FF}, k \in 0 .. 3}

\* C7: after any bus writes read(a) = read(a & 0x07FF) for a < 0x2000; a
\* write of v to a is read back at the four mirrors of a and leaves every RAM
\* cell outside that mirror class as it was.
C7_RamMirrors ==
    /\ \A a \in RamProbes \cup RamAddrs :
          LET r == Bus_read(bus, a) IN
          /\ ~r.panic /\ r.bus = bus
          /\ SameOutcome(r, Bus_read(bus, a % 2048))
    /\ (out.op = "write" /\ out.addr < \H2000) =>
          /\ ~out.panic
          /\ \A k \in 0 .. 3 :
                Bus_read(bus, (out.addr % 2048) + 2048 * k).ret = out.val
          /\ \A i \in (DOMAIN bus.vram \cup DOMAIN pre.vram) \ {out.addr % 2048} :
                Rd(bus.vram, i) = Rd(pre.vram, i)
          /\ \A a \in RamProbes :
                a % 2048 # out.addr % 2048 =>
                    Bus_read(bus, a).ret = Bus_read(pre, a).ret
    /\ (out.op = "read" /\ out.addr < \H2000) =>
          ~out.panic /\ bus = pre /\ out.ret = Rd(pre.vram, out.addr % 2048)

C7_Witness ==
    /\ out.op = "write" /\ out.addr = \H17FF /\ out.val = \HA5
    /\ Rd(pre.vram, \H7FF) = \H5A /\ Rd(pre.vram, 0) = \H5A
    /\ Bus_read(bus, \H0FFF).ret = \HA5 /\ Bus_read(bus, \H1800).ret = \H5A

(***************************************************************************)
(* SpecStack: n pushes followed by pulls on a core whose stack pointer     *)
(* starts anywhere.  A "free" run pushes up to MaxPush bytes of its        *)
(* choice; a "full" run pushes StackByte(0 .. 255), one byte for every     *)
(* cell of the page, before it pulls.  shadow.pushed lists the bytes not   *)
(* yet pulled with the stack pointer each push started from;               *)
(* shadow.popped is the entry the last pull is due to return.              *)
(***************************************************************************)
StackStarts == {\H00, \H01, \HFD, \HFF}

StackVals == {\H00, \H5A, \HFF}

StackByte(i) == (i * 7 + 1) % 256

\* the cells of the page 0x0100-0x01FF
PageCells == \H100

InitStack ==
    /\ \E s \in StackStarts : core = [NoveCore_new EXCEPT !.sp = s]
    /\ \E m \in {"free", "full"} :
          shadow = [mode |-> m, pushed |-> <<>>, popped |-> NoVal, pulling |-> FALSE]
    /\ pre = core
    /\ out = NoCall
    /\ nticks = 0
    /\ nops = 0
    /\ bus = Bus_new(Cartridge)

Push(v) ==
    /\ ~out.panic
    /\ ~shadow.pulling
    /\ LET r == stack_push(core, v) IN
        /\ core' = r.core
        /\ out' = [op |-> "push", addr |-> NoVal, val |-> v,
                   ret |-> r.ret, panic |-> r.panic]
    /\ pre' = core
    /\ shadow' = [shadow EXCEPT !.pushed = Append(@, [v |-> v, sp |-> core.sp])]
    /\ UNCHANGED <<bus, nticks, nops>>

StackPush ==
    \/ /\ shadow.mode = "free" /\ Len(shadow.pushed) < MaxPush
       /\ \E v \in StackVals : Push(v)
    \/ /\ shadow.mode = "full" /\ Len(shadow.pushed) < PageCells
       /\ Push(StackByte(Len(shadow.pushed)))

StackPull ==
    /\ ~out.panic
    /\ Len(shadow.pushed) > 0
    /\ shadow.mode = "full" => (shadow.pulling \/ Len(shadow.pushed) = PageCells)
    /\ LET r == stack_pull(core) IN
        /\ core' = r.core
        /\ out' = [op |-> "pull", addr |-> NoVal, val |-> NoVal,
                   ret |-> r.ret, panic |-> r.panic]
    /\ pre' = core
    /\ shadow' = [shadow EXCEPT !.pushed = SubSeq(@, 1, Len(@) - 1),
                                !.popped = shadow.pushed[Len(shadow.pushed)],
                                !.pulling = TRUE]
    /\ UNCHANGED <<bus, nticks, nops>>

NextStack == StackPush \/ StackPull

SpecStack == InitStack /\ [][NextStack]_vars

\* C8: stack_push(v) writes v at 0x0100|SP and takes 1 from SP mod 256 (0x00
\* goes to 0xFF); a pull right after returns v and puts SP back; n <= 256
\* pushes followed by pulls give the bytes back last-in first-out, each pull
\* leaving SP where the matching push found it.
C8_StackLifo ==
    /\ out.op = "push" =>
          /\ ~out.panic
          /\ Rd(core.memory, \H100 + pre.sp) = out.val
          /\ core.sp = IF pre.sp = 0 THEN \HFF ELSE pre.sp - 1
          /\ LET r == stack_pull(core) IN
                ~r.panic /\ r.ret = out.val /\ r.core.sp = pre.sp
    /\ out.op = "pull" =>
          /\ ~out.panic
          /\ out.ret = shadow.popped.v
          /\ core.sp = shadow.popped.sp

C8_Witness ==
    /\ out.op = "pull" /\ shadow.mode = "full" /\ shadow.pushed = <<>>
    /\ core.sp = \H01 /\ pre.sp = \H00 /\ out.ret = StackByte(0)

(***************************************************************************)
(* SpecCore: a core with a pointer word stored at PC, a reset vector at    *)
(* 0xFFFC and CoreByte in the cells the pointer leads to; reset and        *)
(* get_addr are called on it.  core.memory holds cells below MEMORY_SIZE   *)
(* only.                                                                   *)
(***************************************************************************)
CorePcs == {\H0200, \H8000}

Pointers == {\H0300, \H03FF, \H0A01, \H12FE, \HFFFE, \HFFFF}

Vectors == {\H8000, \H02A0}

RegFiles ==
    { [a |-> \H00, x |-> \H00, y |-> \H00, sp |-> \HFF, ps |-> \H00],
      [a |-> \H80, x |-> \H01, y |-> \HFF, sp |-> \H00, ps |-> \HFF],
      [a |-> \H11, x |-> \H02, y |-> \H03, sp |-> \HFD, ps |-> \H24] }

Modes == {"IMM", "REL", "ZPG", "ZPX", "ZPY", "ABS", "ABX", "ABY",
          "IND", "IDX", "IDY", "IMP", "ACC"}

\* differs between a cell and the cell 256 further on
CoreByte(i) == (i * 13 + (i \div 256) * 5 + 7) % 256

\* memory with word p at pc, word v at PC_START_ADDR, CoreByte around p
\* and in the zero page and the cell after it
CoreMemory(pc, p, v) ==
    LET val(i) == IF i = pc THEN p % 256
                  ELSE IF i = pc + 1 THEN p \div 256
                  ELSE IF i = PC_START_ADDR THEN v % 256
                  ELSE IF i = PC_START_ADDR + 1 THEN v \div 256
                  ELSE CoreByte(i)
        cells == {pc, pc + 1, PC_START_ADDR, PC_START_ADDR + 1,
                  p, (p + 1) % 65536, p - (p % 256)} \cup (0 .. 256)
    IN  [i \in {j \in cells : j < MEMORY_SIZE /\ val(j) # 0} |-> val(i)]

InitCore ==
    /\ \E pc \in CorePcs, p \in Pointers, v \in Vectors, r \in RegFiles :
          core = [pc |-> pc, sp |-> r.sp, a |-> r.a, x |-> r.x, y |-> r.y,
                  ps |-> r.ps, memory |-> CoreMemory(pc, p, v)]
    /\ pre = core
    /\ out = NoCall
    /\ nticks = 0
    /\ nops = 0
    /\ shadow = NoVal
    /\ bus = Bus_new(Cartridge)

CoreReset ==
    /\ ~out.panic
    /\ nops < MaxCoreOps
    /\ LET r == reset(core) IN
        /\ core' = r.core
        /\ out' = [op |-> "reset", addr |-> NoVal, val |-> NoVal,
                   ret |-> r.ret, panic |-> r.panic]
    /\ pre' = core
    /\ nops' = nops + 1
    /\ UNCHANGED <<bus, nticks, shadow>>

CoreGetAddr ==
    /\ ~out.panic
    /\ nops < MaxCoreOps
    /\ \E mode \in Modes :
          LET r == get_addr(core, mode) IN
          out' = [op |-> "get_addr", addr |-> NoVal, val |-> mode,
                  ret |-> r.ret, panic |-> r.panic]
    /\ pre' = core
    /\ nops' = nops + 1
    /\ UNCHANGED <<bus, core, nticks, shadow>>

NextCore == CoreReset \/ CoreGetAddr

SpecCore == InitCore /\ [][NextCore]_vars

\* the byte of the 16-bit address space at address i
Mem(m, i) == Rd(m, i)

\* C9: right after reset() SP = 0xFD, P & 0x24 = 0x24, PC is the
\* little-endian word stored at 0xFFFC/0xFFFD and A = X = Y = 0.
C9_ResetState ==
    out.op = "reset" =>
        /\ ~out.panic
        /\ core.sp = \HFD
        /\ And(core.ps, \H24) = \H24
        /\ core.pc = Mem(pre.memory, \HFFFC) + 256 * Mem(pre.memory, \HFFFD)
        /\ core.a = 0 /\ core.x = 0 /\ core.y = 0

\* C10: Indirect addressing with pointer word p = mem16[PC] gives
\* mem[p] | (mem[p & 0xFF00] << 8) when the low byte of p is 0xFF and
\* mem[p] | (mem[p + 1] << 8) for every other p.
C10_IndirectPageWrap ==
    (out.op = "get_addr" /\ out.val = "IND") =>
        LET m == core.memory
            p == Mem(m, core.pc) + 256 * Mem(m, core.pc + 1)
        IN  /\ ~out.panic
            /\ out.ret = IF p % 256 = \HFF
                              THEN Mem(m, p) + 256 * Mem(m, p - \HFF)
                              ELSE Mem(m, p) + 256 * Mem(m, p + 1)

\* C16: (Indirect),Y with z = mem[PC] gives the address
\* (mem[z] | (mem[(z + 1) mod 256] << 8)) + Y mod 2^16.
C16_IndirectIndexed ==
    (out.op = "get_addr" /\ out.val = "IDY") =>
        LET m == core.memory
            z == Mem(m, core.pc)
        IN  /\ ~out.panic
            /\ out.ret = (Mem(m, z) + 256 * Mem(m, (z + 1) % 256) + core.y) % 65536

\* C17: (Indirect,X) with q = (mem[PC] + X) mod 256 gives the address
\* mem[q] | (mem[(q + 1) mod 256] << 8); for q = 0xFF the high byte is
\* the byte at 0x0000.
C17_IndexedIndirect ==
    (out.op = "get_addr" /\ out.val = "IDX") =>
        LET m == core.memory
            q == (Mem(m, core.pc) + core.x) % 256
        IN  /\ ~out.panic
            /\ out.ret = Mem(m, q) + 256 * Mem(m, (q + 1) % 256)
            /\ q = \HFF => out.ret \div 256 = Mem(m, \H0000)

(***************************************************************************)
(* SpecRun: NoveCore::run on a core that holds a short program at PC and   *)
(* zeroes (BRK) elsewhere; every step is one turn of the loop.             *)
(***************************************************************************)
AluBytes ==
    {\H00, \H01, \H0F, \H10, \H3F, \H40, \H7F, \H80, \H81, \HBF, \HC0, \HF0, \HFE, \HFF}

PullBytes == {\H00, \H10, \H20, \H30, \HCF, \HDF, \HEF, \HFF}

BranchOffsets == {\H00, \H05, \H7F, \H80, \HFB, \HFF}

\* ADC, SBC, CMP, CPX, CPY immediate; BCC, BCS, BEQ, BMI, BNE, BPL, BVC
ImmediateOps == {\H69, \HE9, \HC9, \HE0, \HC0}

BranchOps == {\H90, \HB0, \HF0, \H30, \HD0, \H10, \H50}

\* ADC/SBC/CMP/CPX/CPY #m
AluPrograms == {<<o, m>> : o \in ImmediateOps, m \in AluBytes}

\* a branch with operand d
BranchPrograms == {<<o, d>> : o \in BranchOps, d \in BranchOffsets}

\* PHP; PLP and LDA #b; PHA; PLP
StackPrograms == {<<\H08, \H28>>} \cup {<<\HA9, b, \H48, \H28>> : b \in PullBytes}

RunPcs == {\H0600, \H80F0}

RunIndex == {[x |-> \H00, y |-> \HFF], [x |-> \H80, y |-> \H7F]}

RunStatus == {\H00, \H01, \H24, \HC2, \HFF}

RunStacks == {\H00, \HFD}

\* bytes without an entry in the opcode table
UnknownBytes == {\H02, \H7F, \H9C, \HF2}

\* a byte without an entry, first or after a NOP, followed by another one
UnknownPrograms ==
    {<<b, \H02>> : b \in UnknownBytes} \cup {<<\HEA, b, \H7F>> : b \in UnknownBytes}

\* memory holding prog from address pc on
RunMemory(pc, prog) ==
    [i \in {pc + k - 1 : k \in {j \in 1 .. Len(prog) : prog[j] # 0}} |-> prog[i - pc + 1]]

\* the core run starts from: registers and P as earlier instructions left them
RunCore(pc, prog, a, r, ps, sp) ==
    [pc |-> pc, sp |-> sp, a |-> a, x |-> r.x, y |-> r.y, ps |-> ps,
     memory |-> RunMemory(pc, prog)]

InitRun ==
    /\ \/ \E prog \in AluPrograms, a \in AluBytes, r \in RunIndex, ps \in RunStatus :
             core = RunCore(\H0600, prog, a, r, ps, \HFD)
       \/ \E prog \in BranchPrograms, pc \in RunPcs, r \in RunIndex, ps \in RunStatus :
             core = RunCore(pc, prog, \H40, r, ps, \HFD)
       \/ \E prog \in StackPrograms, a \in PullBytes, sp \in RunStacks, ps \in RunStatus :
             core = RunCore(\H0600, prog, a, [x |-> \H00, y |-> \HFF], ps, sp)
       \/ \E prog \in UnknownPrograms, pc \in RunPcs, sp \in RunStacks, ps \in RunStatus :
             core = RunCore(pc, prog, \H40, [x |-> \H80, y |-> \H7F], ps, sp)
    /\ pre = core
    /\ out = NoCall
    /\ nticks = 0
    /\ nops = 0
    /\ shadow = NoVal
    /\ bus = Bus_new(Cartridge)

RunStep ==
    /\ ~out.panic
    /\ out.ret \notin {"halt", "WrongOpCode"}
    /\ nops < MaxSteps
    /\ \E checked \in BOOLEAN :
          LET r == step(core, checked) IN
          /\ core' = r.core
          /\ out' = [op |-> "step", addr |-> core.pc, val |-> r.val,
                     ret |-> r.ret, panic |-> r.panic]
    /\ pre' = core
    /\ nops' = nops + 1
    /\ UNCHANGED <<bus, nticks, shadow>>

NextRun == RunStep

SpecRun == InitRun /\ [][NextRun]_vars

\* the instruction the last step ran: its opcode byte and its operand byte
Ran(code) == out.op = "step" /\ ~out.panic /\ Rd(pre.memory, pre.pc) = code

Operand == Rd(pre.memory, pre.pc + 1)

Flag(ps, bit) == (ps \div bit) % 2

\* C11: adc(M) returns (A + M + C) mod 256, sets Carry iff A + M + C > 255 and
\* Overflow iff A and M both differ in sign from the result; sbc(M) gives the
\* result, Carry and Overflow of adc(M xor 0xFF).
C11_AdcSbc ==
    /\ \A m \in AluBytes :
          LET t == core.a + m + Flag(core.ps, 1)
              r == adc(core, m)
              q == sbc(core, m)
              n == adc(core, 255 - m)
          IN  /\ r.ret = t % 256
              /\ Flag(r.core.ps, 1) = (IF t > 255 THEN 1 ELSE 0)
              /\ Flag(r.core.ps, 64) =
                    (IF core.a \div 128 # (t % 256) \div 128
                        /\ m \div 128 # (t % 256) \div 128 THEN 1 ELSE 0)
              /\ q.ret = n.ret
              /\ Flag(q.core.ps, 1) = Flag(n.core.ps, 1)
              /\ Flag(q.core.ps, 64) = Flag(n.core.ps, 64)
    /\ Ran(\H69) =>
          LET t == pre.a + Operand + Flag(pre.ps, 1) IN
          /\ core.a = t % 256
          /\ Flag(core.ps, 1) = (IF t > 255 THEN 1 ELSE 0)
    /\ Ran(\HE9) =>
          LET t == pre.a + (255 - Operand) + Flag(pre.ps, 1) IN
          /\ core.a = t % 256
          /\ Flag(core.ps, 1) = (IF t > 255 THEN 1 ELSE 0)

C11_Witness ==
    /\ Ran(\H69) /\ pre.a = \H7F /\ Operand = \H01 /\ Flag(pre.ps, 1) = 1
    /\ core.a = \H81 /\ Flag(core.ps, 64) = 1 /\ Flag(core.ps, 1) = 0

\* what a compare of register value R with the operand must leave
Compared(R) ==
    /\ Flag(core.ps, 1) = (IF R >= Operand THEN 1 ELSE 0)
    /\ Flag(core.ps, 2) = (IF R = Operand THEN 1 ELSE 0)
    /\ Flag(core.ps, 128) = ((R + 256 - Operand) % 256) \div 128
    /\ (core.ps \div 4) % 32 = (pre.ps \div 4) % 32
    /\ core.a = pre.a /\ core.x = pre.x /\ core.y = pre.y /\ core.sp = pre.sp
    /\ core.memory = pre.memory

\* C12: after CMP, CPX, CPY with register value R and operand M, Carry is set
\* iff R >= M, Zero iff R = M, Negative is bit 7 of (R - M) mod 256, and the
\* register, the other flags and memory are unchanged.
C12_Compare ==
    /\ Ran(\HC9) => Compared(pre.a)
    /\ Ran(\HE0) => Compared(pre.x)
    /\ Ran(\HC0) => Compared(pre.y)

\* b with One (bit 5) set and Break (bit 4) clear
Pulled(b) == (b \div 64) * 64 + 32 + (b % 16)

Taken(code, ps) ==
    CASE code = \H90 -> Flag(ps, 1) = 0       \* BCC
      [] code = \HB0 -> Flag(ps, 1) = 1       \* BCS
      [] code = \HF0 -> Flag(ps, 2) = 1       \* BEQ
      [] code = \HD0 -> Flag(ps, 2) = 0       \* BNE
      [] code = \H30 -> Flag(ps, 128) = 1     \* BMI
      [] code = \H10 -> Flag(ps, 128) = 0     \* BPL
      [] code = \H50 -> Flag(ps, 64) = 0      \* BVC

\* the operand byte read as a two's complement number
Signed(d) == IF d < 128 THEN d ELSE d - 256

\* C14: a branch at address p with operand d leaves PC = (p + 2 + signed(d))
\* mod 2^16 if its predicate holds and PC = p + 2 if not; no register, flag
\* or memory cell changes.
C14_Branch ==
    \A code \in BranchOps :
        Ran(code) =>
            /\ core.pc = IF Taken(code, pre.ps)
                             THEN (pre.pc + 2 + Signed(Operand) + 65536) % 65536
                             ELSE pre.pc + 2
            /\ core.a = pre.a /\ core.x = pre.x /\ core.y = pre.y
            /\ core.sp = pre.sp /\ core.ps = pre.ps /\ core.memory = pre.memory

\* the cycles the code holds for the instruction the last step ran: the
\* cycles field of its table entry (branch_if adds nothing to it and run
\* makes no tick call)
Cycles == OPCODES_MAP[Rd(pre.memory, pre.pc)].cycles

\* C15: a branch costs 2 cycles when it is not taken, 3 when it is taken to
\* the page of the next instruction and 4 when it is taken to another page.
C15_BranchCycles ==
    \A code \in BranchOps :
        Ran(code) =>
            LET next == pre.pc + 2
                target == (next + Signed(Operand) + 65536) % 65536
            IN  Cycles = IF ~Taken(code, pre.ps) THEN 2
                         ELSE IF target \div 256 = next \div 256 THEN 3
                         ELSE 4

(***************************************************************************)
(* SpecData: the program reaches CHR ROM, VRAM and palette RAM through the *)
(* ADDR and DATA registers of the bus.  The run starts after the program   *)
(* has set CTRL and ADDR and filled part of VRAM.                          *)
(***************************************************************************)
\* differs between a cell and the cells 32, 1024 and 2048 further on
VramByte(i) == (i * 11 + (i \div 256) * 3 + 5) % 256

\* the cells of the 2 KiB VRAM earlier DATA writes filled: the first and
\* last of each nametable and its first column
DataVram ==
    [i \in {j \in 0 .. VRAM_SIZE - 1 :
               /\ VramByte(j) # 0
               /\ \/ j % NAMETABLE_SIZE < 8
                  \/ j % NAMETABLE_SIZE >= NAMETABLE_SIZE - 8
                  \/ j % 32 = 0} |-> VramByte(i)]

BufferedAddrs ==
    {\H0000, \H1FFE, \H1FFF, \H2000, \H23FF, \H2400, \H27E0, \H2800, \H2C00,
     \H2FFF, \H3000, \H3EFF}

PaletteAddrs ==
    {\H3F00, \H3F04, \H3F08, \H3F0C, \H3F10, \H3F14, \H3F18, \H3F1C,
     \H3F01, \H3F1F, \H3F20, \H3FFF}

DataStrides == {\H00, VramAddrIncrement}

DataBuffers == {\H00, \H5A}

DataVals == {\H11, \H2A}

Mirrorings == {"Horizontal", "Vertical"}

\* the bytes the program writes to ADDR: the palette page or the first page
\* of nametable 0, then a cell of it
AddrBytes(ptr) ==
    IF ptr = "Hi" THEN {\H3F, \H20}
    ELSE {\H00, \H04, \H08, \H0C, \H10, \H14, \H18, \H1C}

\* the run of consecutive DATA reads: ADDR and the buffer before its first
\* read, and the reads made so far; w is the address of the last DATA write,
\* past LIMIT before the first
RunOfReads(p, w) ==
    [a |-> AddressRegister_get(p.addr), buf |-> p.internal_data_buffer, n |-> 0,
     w |-> w]

DataBus(mirroring, a, ctrl, buf, vram) ==
    [Bus_new([Cartridge EXCEPT !.screen_mirroring = mirroring])
        EXCEPT !.ppu.addr = AddressRegister_set(@, a),
               !.ppu.ctrl = ctrl,
               !.ppu.internal_data_buffer = buf,
               !.ppu.vram = vram]

InitData ==
    /\ \/ \E m \in Mirrorings, a \in BufferedAddrs, c \in DataStrides,
             b \in DataBuffers : bus = DataBus(m, a, c, b, DataVram)
       \/ \E a \in PaletteAddrs, c \in DataStrides :
             bus = DataBus("Horizontal", a, c, \H5A, Zeroes)
    /\ pre = bus
    /\ out = NoCall
    /\ nticks = 0
    /\ nops = 0
    /\ core = NoveCore_new
    /\ shadow = RunOfReads(bus.ppu, LIMIT + 1)

\* Bus::read(DATA)
DataRead ==
    /\ ~out.panic
    /\ nops < MaxDataOps
    /\ LET r == Bus_read(bus, DATA) IN
        /\ bus' = r.bus
        /\ out' = [op |-> "read", addr |-> DATA, val |-> NoVal,
                   ret |-> r.ret, panic |-> r.panic]
    /\ pre' = bus
    /\ nops' = nops + 1
    /\ shadow' = [shadow EXCEPT !.n = @ + 1]
    /\ UNCHANGED <<core, nticks>>

\* Bus::write(DATA, value)
DataWrite ==
    /\ ~out.panic
    /\ nops < MaxDataOps
    /\ \E value \in DataVals :
          LET r == Bus_write(bus, DATA, value) IN
            /\ bus' = r.bus
            /\ out' = [op |-> "write", addr |-> DATA, val |-> value,
                       ret |-> r.ret, panic |-> r.panic]
            /\ shadow' = RunOfReads(r.bus.ppu, AddressRegister_get(bus.ppu.addr))
    /\ pre' = bus
    /\ nops' = nops + 1
    /\ UNCHANGED <<core, nticks>>

\* Bus::write(ADDR, value)
AddrWrite ==
    /\ ~out.panic
    /\ nops < MaxDataOps
    /\ \E value \in AddrBytes(bus.ppu.addr.ptr) :
          LET r == Bus_write(bus, ADDR, value) IN
            /\ bus' = r.bus
            /\ out' = [op |-> "write", addr |-> ADDR, val |-> value,
                       ret |-> r.ret, panic |-> r.panic]
            /\ shadow' = RunOfReads(r.bus.ppu, shadow.w)
    /\ pre' = bus
    /\ nops' = nops + 1
    /\ UNCHANGED <<core, nticks>>

NextData == DataRead \/ DataWrite \/ AddrWrite

SpecData == InitData /\ [][NextData]_vars

\* the byte a DATA read at PPU address a below the palette fetches: CHR
\* ROM below 0x2000, the mirrored VRAM cell from there on
Stored(p, a) ==
    IF a < VRAM_START THEN ChrByte(a) ELSE Rd(p.vram, mirror_vram(p, a))

\* the address read k of the current run of DATA reads targets
Target(k) == shadow.a + (k - 1) * vram_add_inc(bus.ppu.ctrl)

\* C18: in a run of DATA reads from ADDR = a in 0x0000-0x3EFF the first
\* read returns the byte the buffer held before it and read n >= 2 returns
\* the byte stored at a + (n - 2) * stride, while the reads target
\* addresses below the palette.
C18_BufferedReads ==
    ( /\ out.op = "read" /\ out.addr = DATA
      /\ shadow.a <= \H3EFF
      /\ \A k \in 1 .. shadow.n : Target(k) < PALETTE_START ) =>
        /\ ~out.panic
        /\ out.ret = IF shadow.n = 1 THEN shadow.buf
                     ELSE Stored(bus.ppu, Target(shadow.n - 1))

\* the palette cell of PPU address a: 32 cells, those of the universal
\* background mirrors folded onto 0x00, 0x04, 0x08, 0x0C
PaletteCell(a) ==
    LET i == (a - PALETTE_START) % PALETTE_SIZE
    IN  IF i \in {\H10, \H14, \H18, \H1C} THEN i - \H10 ELSE i

\* the last call was a DATA access with ADDR in the palette range
PaletteAccess(op) ==
    /\ out.op = op /\ out.addr = DATA
    /\ AddressRegister_get(pre.ppu.addr) >= PALETTE_START

\* C19: with ADDR = a in 0x3F00-0x3FFF a DATA read completes and returns
\* the palette byte of a in that same read, leaving the buffer alone, and
\* a DATA write completes and stores its byte in palette RAM.
C19_PaletteDirect ==
    LET cell == PaletteCell(AddressRegister_get(pre.ppu.addr)) IN
    /\ PaletteAccess("read") =>
          /\ ~out.panic
          /\ out.ret = Rd(pre.ppu.palette, cell)
          /\ bus.ppu.internal_data_buffer = pre.ppu.internal_data_buffer
    /\ PaletteAccess("write") =>
          /\ ~out.panic
          /\ bus.ppu.palette = Wr(pre.ppu.palette, cell, out.val)

\* the universal background mirrors
PaletteMirrors == {\H3F10, \H3F14, \H3F18, \H3F1C}

\* the last call was a completed DATA access with ADDR = a
DataAccess(op, a) ==
    /\ out.op = op /\ out.addr = DATA /\ ~out.panic
    /\ AddressRegister_get(pre.ppu.addr) = a

\* C20: for m in 0x3F10, 0x3F14, 0x3F18, 0x3F1C and t = m - 0x10, a read at
\* m returns the byte a read at t returns, a write through m or through t
\* changes the cell of t and no other, and the palette cells 0x10, 0x14,
\* 0x18 and 0x1C are never written.
C20_PaletteMirrors ==
    /\ \A m \in PaletteMirrors :
          LET t == m - \H10
              cell == t - PALETTE_START
          IN  /\ (DataAccess("read", m) \/ DataAccess("read", t)) =>
                    out.ret = Rd(pre.ppu.palette, cell)
              /\ (DataAccess("write", m) \/ DataAccess("write", t)) =>
                    bus.ppu.palette = Wr(pre.ppu.palette, cell, out.val)
    /\ \A i \in {\H10, \H14, \H18, \H1C} : i \notin DOMAIN bus.ppu.palette

\* a read at a mirror returns a byte written before
C20_Witness ==
    \E m \in PaletteMirrors :
        /\ DataAccess("read", m)
        /\ out.ret \in DataVals
        /\ out.ret = Rd(bus.ppu.palette, m - \H10 - PALETTE_START)

\* the last call was a completed or aborted DATA access with ADDR in a
\* nametable, 0x2000-0x2FFF
VramAccess(op) ==
    /\ out.op = op /\ out.addr = DATA
    /\ AddressRegister_get(pre.ppu.addr) \in VRAM_START .. VRAM_END

\* the address that shares its byte with a: the next or previous nametable
\* under Horizontal mirroring, the one two further or back under Vertical
Alias(mirroring, a) ==
    LET d == IF mirroring = "Horizontal" THEN NAMETABLE_SIZE ELSE 2 * NAMETABLE_SIZE
    IN  IF ((a - VRAM_START) \div d) % 2 = 0 THEN a + d ELSE a - d

\* the nametable two further or back under Horizontal mirroring, the next
\* or previous one under Vertical: storage of its own
Apart(mirroring, a) ==
    Alias(IF mirroring = "Horizontal" THEN "Vertical" ELSE "Horizontal", a)

\* the cell of the 2 KiB VRAM that holds the byte of nametable address a
NametableCell(mirroring, a) ==
    LET v == a - VRAM_START
    IN  IF mirroring = "Horizontal"
            THEN (v \div (2 * NAMETABLE_SIZE)) * NAMETABLE_SIZE + (v % NAMETABLE_SIZE)
            ELSE v % (2 * NAMETABLE_SIZE)

\* C21: under Horizontal mirroring a and a + 0x400 (a in nametable 0 or 2)
\* and under Vertical mirroring a and a + 0x800 (a in nametable 0 or 1)
\* address the same byte, the other nametables are storage of their own, a
\* byte written at one alias is read at the other, and a DATA write changes
\* no byte outside its alias pair.
C21_NametableMirrors ==
    LET p == pre.ppu
        a == AddressRegister_get(p.addr)
        cell == NametableCell(p.mirroring, a)
    IN  /\ (VramAccess("read") \/ VramAccess("write")) =>
              /\ ~out.panic
              /\ cell = NametableCell(p.mirroring, Alias(p.mirroring, a))
              /\ cell # NametableCell(p.mirroring, Apart(p.mirroring, a))
        /\ VramAccess("read") =>
              bus.ppu.internal_data_buffer = Rd(p.vram, cell)
        /\ VramAccess("write") =>
              bus.ppu.vram = Wr(p.vram, cell, out.val)

\* a read at one alias fetches the byte the last write stored at the other
C21_Witness ==
    LET p == pre.ppu
        a == AddressRegister_get(p.addr)
    IN  /\ VramAccess("read") /\ ~out.panic
        /\ shadow.w = Alias(p.mirroring, a)
        /\ bus.ppu.internal_data_buffer \in DataVals
        /\ bus.ppu.internal_data_buffer # VramByte(NametableCell(p.mirroring, a))

(***************************************************************************)
(* SpecAddr: the AddressRegister of the PPU under update (the write of     *)
(* ADDR), inc and reset, from the values two earlier writes can leave.     *)
(***************************************************************************)
AddrValues ==
    {\H0000, \H00FF, \H0100, \H1234, \H1FFF, \H2000, \H23E0, \H2FFF, \H3000,
     \H3EFF, \H3F00, \H3F1F, \H3FE0, \H3FFE, \H3FFF}

AddrWrites == {\H00, \H12, \H3F, \H40, \H7F, \H80, \HC5, \HFF}

AddrSteps == {0, 1, 2, \H20, \H7F, \H80, \HE1, \HFF}

\* the call before the last one and the state it started from
Earlier == [out |-> out, pre |-> pre]

InitAddr ==
    /\ \E v \in AddrValues :
          bus = [Bus_new(Cartridge) EXCEPT !.ppu.addr = AddressRegister_set(@, v)]
    /\ pre = bus
    /\ out = NoCall
    /\ nticks = 0
    /\ nops = 0
    /\ core = NoveCore_new
    /\ shadow = Earlier

\* AddressRegister::update(val)
AddrUpdate ==
    /\ nops < MaxAddrOps
    /\ \E val \in AddrWrites :
          /\ bus' = [bus EXCEPT !.ppu.addr = AddressRegister_update(@, val)]
          /\ out' = [op |-> "update", addr |-> NoVal, val |-> val,
                     ret |-> NoVal, panic |-> FALSE]
    /\ pre' = bus
    /\ shadow' = Earlier
    /\ nops' = nops + 1
    /\ UNCHANGED <<core, nticks>>

\* AddressRegister::inc(val)
AddrInc ==
    /\ nops < MaxAddrOps
    /\ \E val \in AddrSteps :
          /\ bus' = [bus EXCEPT !.ppu.addr = AddressRegister_inc(@, val)]
          /\ out' = [op |-> "inc", addr |-> NoVal, val |-> val,
                     ret |-> NoVal, panic |-> FALSE]
    /\ pre' = bus
    /\ shadow' = Earlier
    /\ nops' = nops + 1
    /\ UNCHANGED <<core, nticks>>

\* AddressRegister::reset()
AddrReset ==
    /\ nops < MaxAddrOps
    /\ bus' = [bus EXCEPT !.ppu.addr = AddressRegister_reset(@)]
    /\ out' = [op |-> "reset", addr |-> NoVal, val |-> NoVal,
               ret |-> NoVal, panic |-> FALSE]
    /\ pre' = bus
    /\ shadow' = Earlier
    /\ nops' = nops + 1
    /\ UNCHANGED <<core, nticks>>

NextAddr == AddrUpdate \/ AddrInc \/ AddrReset

SpecAddr == InitAddr /\ [][NextAddr]_vars

\* C22: from the toggle at the high byte two writes b1, b2 leave
\* get() = ((b1 & 0x3F) << 8) | b2 and the toggle at the high byte again;
\* a single write replaces the selected half only, the other half is kept
\* apart from the 0x3FFF mask, and the toggle flips.
C22_AddrDoubleWrite ==
    LET r == bus.ppu.addr
        q == pre.ppu.addr
    IN  /\ out.op = "update" =>
              IF q.ptr = "Hi"
                  THEN r.hi = And(out.val, \H3F) /\ r.lo = q.lo /\ r.ptr = "Lo"
                  ELSE r.lo = out.val /\ r.hi = And(q.hi, \H3F) /\ r.ptr = "Hi"
        /\ ( /\ out.op = "update" /\ shadow.out.op = "update"
             /\ shadow.pre.ppu.addr.ptr = "Hi" ) =>
              /\ AddressRegister_get(r) = And(shadow.out.val, \H3F) * 256 + out.val
              /\ r.ptr = "Hi"

\* three writes from the toggle at the high byte: the third one replaces
\* the high byte and keeps the low byte of the second
C22_Witness ==
    /\ nops = 3
    /\ out.op = "update" /\ shadow.out.op = "update"
    /\ shadow.pre.ppu.addr.ptr = "Lo" /\ shadow.pre.ppu.addr.hi # 0
    /\ pre.ppu.addr.lo = shadow.out.val
    /\ out.val > \H3F
    /\ bus.ppu.addr.hi # pre.ppu.addr.hi
    /\ bus.ppu.addr.lo = shadow.out.val

\* C23: for a register value v <= 0x3FFF and n in 0..255, inc(n) leaves
\* get() = (v + n) mod 0x4000 and the toggle as it was.
C23_AddrInc ==
    (out.op = "inc" /\ AddressRegister_get(pre.ppu.addr) <= LIMIT) =>
        /\ AddressRegister_get(bus.ppu.addr)
              = (AddressRegister_get(pre.ppu.addr) + out.val) % (LIMIT + 1)
        /\ bus.ppu.addr.ptr = pre.ppu.addr.ptr

\* an inc that carries out of the low byte and wraps past 0x3FFF
C23_Witness ==
    /\ out.op = "inc"
    /\ pre.ppu.addr.ptr = "Lo"
    /\ AddressRegister_get(pre.ppu.addr) + out.val > LIMIT
    /\ AddressRegister_get(bus.ppu.addr) # 0

(***************************************************************************)
(* SpecCycles: the CPU reports the cycles of each instruction to the bus,  *)
(* which ticks the PPU.                                                    *)
(***************************************************************************)
CycleStarts ==
    {[scanline |-> 0, cycles |-> 0], [scanline |-> 240, cycles |-> 340],
     [scanline |-> 261, cycles |-> 100]}

CpuCycles == {0, 1, 2, 7, 85, 86, 128, 255}

InitCycles ==
    /\ \E s \in CycleStarts :
          bus = [Bus_new(Cartridge) EXCEPT !.ppu.scanline = s.scanline,
                                           !.ppu.cycles = s.cycles]
    /\ pre = bus
    /\ out = NoCall
    /\ nticks = 0
    /\ nops = 0
    /\ core = NoveCore_new
    /\ shadow = NoVal

\* Bus::tick(cpu_cycles); a panic ends the run
BusTickCycles ==
    /\ ~out.panic
    /\ nticks < MaxBusCalls
    /\ \E cpu_cycles \in CpuCycles, checked \in BOOLEAN :
          LET r == Bus_tick(bus, cpu_cycles, checked) IN
            /\ bus' = r.bus
            /\ out' = [op |-> "bus_tick", addr |-> NoVal, val |-> cpu_cycles,
                       ret |-> r.ret, panic |-> r.panic]
    /\ pre' = bus
    /\ nticks' = nticks + 1
    /\ UNCHANGED <<core, nops, shadow>>

NextCycles == BusTickCycles

SpecCycles == InitCycles /\ [][NextCycles]_vars

\* the dot of the frame the PPU is at
Dot(p) == p.scanline * SCANLINE_CYCLES + p.cycles

\* C24: Bus::tick(cpu_cycles) with cpu_cycles in 0..255 completes and
\* advances the PPU by exactly 3 * cpu_cycles dots.
C24_ThreeDotsPerCycle ==
    out.op = "bus_tick" =>
        /\ ~out.panic
        /\ Dot(bus.ppu) = (Dot(pre.ppu) + 3 * out.val) % FrameTicks

(***************************************************************************)
(* interrupt.rs: what InterruptFlag::NMI asks of the CPU, and the CPU tick *)
(* that services it.  The tick is not part of core.rs as it stands; it is  *)
(* the per-tick sequence of the specification (4.E), built from            *)
(* stack_push, Memory::read_u16, Bus::tick and one turn of the run loop.   *)
(***************************************************************************)
InterruptFlag_cycles(flag) == IF flag = "NMI" THEN Value(2) ELSE OutOfBounds

InterruptFlag_addr(flag) == IF flag = "NMI" THEN Value(\Hfffa) ELSE OutOfBounds

\* a mask that raises One and keeps Break
InterruptFlag_mask_keeps_break(flag, val) ==
    IF flag = "NMI" THEN Value(Or(val, StatusFlag.One)) ELSE OutOfBounds

\* val & !brk | one
InterruptFlag_mask(flag, val) ==
    IF flag = "NMI"
        THEN Value(Or(And(val, Not8(StatusFlag.Break)), StatusFlag.One))
        ELSE OutOfBounds

\* a core and a bus together, and whether the call panicked
Sys(c, b, panic) == [core |-> c, bus |-> b, panic |-> panic]

\* step 1 of the tick: push PC (high byte, low byte) and the masked P,
\* raise InterruptDisable, tick the bus, load PC from the vector, clear
\* the cell
service(c, b, flag, checked) ==
    LET p1 == stack_push(c, c.pc \div 256)
        p2 == stack_push(p1.core, c.pc % 256)
        p3 == stack_push(p2.core, InterruptFlag_mask(flag, c.ps).ret)
        c3 == [p3.core EXCEPT !.ps = raise(@, StatusFlag.Interrupt)]
        t == Bus_tick(b, InterruptFlag_cycles(flag).ret, checked)
        w == Memory_read_u16(c3.memory, InterruptFlag_addr(flag).ret)
    IN  IF p1.panic \/ p2.panic \/ p3.panic \/ t.panic \/ w.panic
            THEN Sys(c, b, TRUE)
            ELSE Sys([c3 EXCEPT !.pc = w.ret],
                     [t.bus EXCEPT !.ppu.cpu_interrupt = "None"], FALSE)

\* NoveCore::tick: service a pending NMI, run one instruction, drive the
\* bus with its cycles; after is the state between steps 1 and 2
tick(c, b, checked) ==
    LET pending == b.ppu.cpu_interrupt = "NMI"
        end(s, k, d, r, p) == [core |-> k, bus |-> d, after |-> s, ret |-> r, panic |-> p]
        \* step 2 from the state s that step 1 left
        run(s) ==
            IF s.panic THEN {end(s, c, b, NoVal, TRUE)}
            ELSE UNION {
              IF e.panic THEN {end(s, c, b, NoVal, TRUE)}
              ELSE IF e.ret = "WrongOpCode" THEN {end(s, e.core, s.bus, e.ret, FALSE)}
              ELSE {IF t.panic THEN end(s, c, b, NoVal, TRUE)
                    ELSE end(s, e.core, t.bus,
                             IF e.ret = "halt" THEN "BRK"
                             ELSE IF pending THEN "NMI" ELSE "None", FALSE) :
                       t \in {Bus_tick(s.bus,
                                       OPCODES_MAP[Rd(s.core.memory, s.core.pc)].cycles,
                                       checked)}} :
                 e \in {step(s.core, checked)}}
    IN  CHOOSE r \in UNION {run(s) :
                        s \in {IF pending THEN service(c, b, "NMI", checked)
                               ELSE Sys(c, b, FALSE)}} : TRUE

(***************************************************************************)
(* SpecNmi: CPU ticks over a program of NOPs, with the NMI handler at the  *)
(* address the vector at 0xFFFA holds and the PPU near the start or the    *)
(* end of the vertical blank.                                              *)
(***************************************************************************)
NmiHandler == \H9010

NmiPcs == {\H0600, \H12FF}

NmiStatus == {\H00, \H34, \HDB}

NmiStacks == {\HFD, \H01}

\* NOPs at pc and at the handler, the handler's address at 0xFFFA
NmiMemory(pc) ==
    [i \in (pc .. pc + MaxCpuTicks) \cup (NmiHandler .. NmiHandler + MaxCpuTicks)
           \cup {\HFFFA, \HFFFB} |->
        IF i = \HFFFA THEN NmiHandler % 256
        ELSE IF i = \HFFFB THEN NmiHandler \div 256
        ELSE \HEA]

\* the PPU before the vertical blank, in it with NMI stored, at its end
\* with NMI stored, and at the start of a frame
NmiPpus ==
    LET p == Bus_new(Cartridge).ppu IN
    { [p EXCEPT !.scanline = 240, !.cycles = 336, !.ctrl = GenerateNMI],
      [p EXCEPT !.scanline = 240, !.cycles = 336],
      [p EXCEPT !.scanline = 241, !.cycles = 3, !.ctrl = GenerateNMI,
                !.status = VerticalBlankStarted, !.cpu_interrupt = "NMI"],
      [p EXCEPT !.scanline = 261, !.cycles = 336, !.ctrl = GenerateNMI,
                !.status = VerticalBlankStarted, !.cpu_interrupt = "NMI"],
      p }

InitNmi ==
    /\ \E pc \in NmiPcs, ps \in NmiStatus, sp \in NmiStacks, p \in NmiPpus :
          /\ core = [NoveCore_new EXCEPT !.pc = pc, !.ps = ps, !.sp = sp,
                                         !.memory = NmiMemory(pc)]
          /\ bus = [Bus_new(Cartridge) EXCEPT !.ppu = p]
    /\ pre = [core |-> core, bus |-> bus]
    /\ out = NoCall
    /\ nticks = 0
    /\ nops = 0
    /\ shadow = [core |-> core, bus |-> bus, panic |-> FALSE]

\* NoveCore::tick; a panic or an error ends the run
CpuTick ==
    /\ ~out.panic
    /\ out.ret \notin {"BRK", "WrongOpCode"}
    /\ nops < MaxCpuTicks
    /\ \E checked \in BOOLEAN :
          LET r == tick(core, bus, checked) IN
            /\ core' = r.core
            /\ bus' = r.bus
            /\ shadow' = r.after
            /\ out' = [op |-> "tick", addr |-> core.pc, val |-> NoVal,
                       ret |-> r.ret, panic |-> r.panic]
    /\ pre' = [core |-> core, bus |-> bus]
    /\ nops' = nops + 1
    /\ UNCHANGED nticks

NextNmi == CpuTick

SpecNmi == InitNmi /\ [][NextNmi]_vars

\* the stack cell k pushes below the stack pointer sp
StackCell(sp, k) == STACK_PAGE + ((sp + 256 - k) % 256)

\* C25: a tick that starts with NMI in the interrupt cell pushes PC, high
\* byte then low byte, and (P & ~0x10) | 0x20, raises InterruptDisable,
\* sets PC to the word at 0xFFFA, accounts 2 cycles and leaves the cell at
\* None before it runs the handler's first instruction; a tick that starts
\* with the cell at None services nothing, whatever the PPU stores in it.
C25_NmiService ==
    (out.op = "tick" /\ ~out.panic) =>
        LET c == pre.core
            s == shadow.core
        IN  IF pre.bus.ppu.cpu_interrupt = "NMI"
            THEN /\ Rd(s.memory, StackCell(c.sp, 0)) = c.pc \div 256
                 /\ Rd(s.memory, StackCell(c.sp, 1)) = c.pc % 256
                 /\ Rd(s.memory, StackCell(c.sp, 2)) = Or(And(c.ps, \HEF), \H20)
                 /\ s.sp = (c.sp + 256 - 3) % 256
                 /\ s.ps = Or(c.ps, \H04)
                 /\ s.pc = Rd(c.memory, \HFFFA) + 256 * Rd(c.memory, \HFFFB)
                 /\ Dot(shadow.bus.ppu) = (Dot(pre.bus.ppu) + 3 * 2) % FrameTicks
                 /\ shadow.bus.ppu.cpu_interrupt = "None"
                 /\ core.pc = s.pc + 1
                 /\ out.ret = "NMI"
            ELSE /\ s = c
                 /\ shadow.bus = pre.bus
                 /\ core = [c EXCEPT !.pc = @ + 1]
                 /\ out.ret = "None"

\* the PPU stored NMI during the tick before, which did not service it,
\* and this tick serviced it
C25_Witness ==
    /\ out.op = "tick" /\ ~out.panic
    /\ nops = 2
    /\ pre.bus.ppu.cpu_interrupt = "NMI"
    /\ shadow.core.pc = NmiHandler
    /\ core.pc = NmiHandler + 1
    /\ core.sp = (pre.core.sp + 256 - 3) % 256
    /\ Rd(core.memory, StackCell(pre.core.sp, 2)) # pre.core.ps

\* C26: when the byte b fetched at PC has no entry in the opcode table,
\* execution stops with the error WrongOpCode(b), and A, X, Y, P, SP and
\* memory are as before the fetch.
C26_WrongOpCode ==
    (out.op = "step" /\ ~out.panic) =>
        LET b == Rd(pre.memory, pre.pc) IN
        /\ b \notin DOMAIN OPCODES_MAP =>
              /\ out.ret = "WrongOpCode" /\ out.val = b
              /\ core.a = pre.a /\ core.x = pre.x /\ core.y = pre.y
              /\ core.ps = pre.ps /\ core.sp = pre.sp
              /\ core.memory = pre.memory
        /\ out.ret = "WrongOpCode" => b \notin DOMAIN OPCODES_MAP

\* the error stopped the run after a NOP
C26_Witness ==
    /\ out.op = "step" /\ out.ret = "WrongOpCode"
    /\ nops = 2
    /\ out.val = \H9C
    /\ Rd(core.memory, core.pc) \notin DOMAIN OPCODES_MAP

\* C27: when the fetched opcode is BRK (0x00) execution halts with
\* success: nothing is pushed, PC is not loaded from 0xFFFE, A, X, Y, P, SP
\* and memory are unchanged and PC is the address of the BRK byte plus 1.
C27_BrkHalts ==
    (out.op = "step" /\ ~out.panic) =>
        /\ Rd(pre.memory, pre.pc) = \H00 =>
              /\ out.ret = "halt"
              /\ core = [pre EXCEPT !.pc = pre.pc + 1]
        /\ out.ret = "halt" => Rd(pre.memory, pre.pc) = \H00

\* a BRK that halts a program after its instructions, with flags set and
\* a byte on the stack
C27_Witness ==
    /\ out.op = "step" /\ out.ret = "halt"
    /\ nops = 3
    /\ core.ps # 0 /\ core.sp # \HFD
    /\ core.memory # Zeroes
    /\ core.pc = pre.pc + 1

(***************************************************************************)
(* cartridge.rs: Rom::new.                                                 *)
(*                                                                         *)
(* The input vector is [len, head]: its length and its first               *)
(* min(len, 16) bytes; the bytes after the header are RomByte(i).  A slice *)
(* raw[a..b] is kept as the range [from, to] it covers.                    *)
(***************************************************************************)
NES_TAG == <<\H4E, \H45, \H53, \H1A>>        \* 'N', 'E', 'S', 0x1a
HEADER_SIZE == \H10                          \* 16
TRAINER_SIZE == \H200                        \* 512
PRG_ROM_PAGE_SIZE == \H4000                  \* 16 kB
CHR_ROM_PAGE_SIZE == \H2000                  \*  8 kB

RomByte(i) == (i * 7 + 3) % 256

\* raw[i], for i < raw.len
Raw_at(raw, i) == IF i < Len(raw.head) THEN raw.head[i + 1] ELSE RomByte(i)

\* impl From<u8> for Mirroring
Mirroring_from(value) ==
    IF And(value, \H08) # 0 THEN "FourScreen"
    ELSE IF And(value, \H01) # 0 THEN "Vertical"
    ELSE "Horizontal"

RomErr(ret) == [ret |-> ret, rom |-> NoVal, panic |-> FALSE]
RomPanic == [ret |-> NoVal, rom |-> NoVal, panic |-> TRUE]

\* Rom::new(raw): raw[0..4], raw[7] and the two data slices panic when
\* they reach past the end of the vector
Rom_new(raw) ==
    IF raw.len < 4 THEN RomPanic
    ELSE IF SubSeq(raw.head, 1, 4) # NES_TAG THEN RomErr("WrongRomFormat")
    ELSE IF raw.len < 8 THEN RomPanic
    ELSE IF And(Raw_at(raw, 7) \div 4, 3) # 0 THEN RomErr("WrongRomFormat")
    ELSE
      LET prg_rom_size == Raw_at(raw, 4) * PRG_ROM_PAGE_SIZE
          chr_rom_size == Raw_at(raw, 5) * CHR_ROM_PAGE_SIZE
          trainer == And(Raw_at(raw, 6), \H04) # 0
          prg_rom_start == HEADER_SIZE + (IF trainer THEN TRAINER_SIZE ELSE 0)
          chr_rom_start == prg_rom_start + prg_rom_size
          chr_rom_end == chr_rom_start + chr_rom_size
      IN  IF chr_rom_start > raw.len \/ chr_rom_end > raw.len THEN RomPanic
          ELSE [ret |-> "Ok",
                rom |-> [prg_rom |-> [from |-> prg_rom_start, to |-> chr_rom_start],
                         chr_rom |-> [from |-> chr_rom_start, to |-> chr_rom_end],
                         mapper |-> Or(And(Raw_at(raw, 7), \HF0),
                                       Raw_at(raw, 6) \div 16),
                         screen_mirroring |-> Mirroring_from(Raw_at(raw, 6))],
                panic |-> FALSE]

(***************************************************************************)
(* Rom::new on headers with a right or wrong tag, each cut or filled to    *)
(* the lengths around the sizes the header declares.                       *)
(***************************************************************************)
RomTags == {NES_TAG, <<\H4E, \H45, \H53, \H00>>, <<\H00, \H01, \H02, \H03>>}
RomPrgPages == {0, 1, 2}
RomChrPages == {0, 1}
RomFlags6 == {\H00, \H04, \H09, \H15}
RomFlags7 == {\H00, \H04, \H08, \H0C, \HF0}

RomHeaders ==
    {tag \o <<prg, chr, f6, f7, 0, 0, 0, 0, 0, 0, 0, 0>> :
        tag \in RomTags, prg \in RomPrgPages, chr \in RomChrPages,
        f6 \in RomFlags6, f7 \in RomFlags7}

\* header, trainer, PRG and CHR sizes a 16-byte header declares
Declared(h) ==
    HEADER_SIZE + (IF And(h[7], \H04) # 0 THEN TRAINER_SIZE ELSE 0)
        + h[5] * PRG_ROM_PAGE_SIZE + h[6] * CHR_ROM_PAGE_SIZE

RomLens(h) ==
    {0, 3, 4, 5, 7, 8, 15, HEADER_SIZE,
     Declared(h) - h[6] * CHR_ROM_PAGE_SIZE,
     Declared(h) - 1, Declared(h), Declared(h) + 1}

RomInputs ==
    UNION {{[len |-> n,
             head |-> SubSeq(h, 1, IF n < HEADER_SIZE THEN n ELSE HEADER_SIZE)] :
                n \in RomLens(h)} : h \in RomHeaders}

InitRom ==
    /\ \E raw \in RomInputs : pre = raw
    /\ out = NoCall
    /\ nticks = 0
    /\ nops = 0
    /\ bus = Bus_new(Cartridge)
    /\ core = NoveCore_new
    /\ shadow = NoVal

\* Rom::new(&raw)
RomNew ==
    /\ out.op = "new"
    /\ LET r == Rom_new(pre) IN
         /\ out' = [op |-> "rom_new", addr |-> NoVal, val |-> NoVal,
                    ret |-> r.ret, panic |-> r.panic]
         /\ shadow' = r.rom
    /\ nops' = nops + 1
    /\ UNCHANGED <<bus, core, pre, nticks>>

NextRom == RomNew

SpecRom == InitRom /\ [][NextRom]_vars

\* the input's first four bytes are not the tag
BadTag(raw) == raw.len < 4 \/ SubSeq(raw.head, 1, 4) # NES_TAG

\* bits 2 and 3 of byte 7 are not both clear
BadVersion(raw) == raw.len >= 8 /\ And(raw.head[8] \div 4, 3) # 0

\* the input is shorter than the header plus the data it declares
Short(raw) ==
    \/ raw.len < HEADER_SIZE
    \/ raw.len < Declared(raw.head)

\* C28: for every input byte sequence Rom::new returns Err(WrongRomFormat)
\* whenever the first four bytes are not 'N','E','S',0x1A, or
\* (byte[7] >> 2) & 3 is not 0, or the input is shorter than the header
\* plus the trainer, PRG and CHR sizes it declares; it never aborts, and it
\* returns Ok only for inputs that hold the full declared PRG and CHR data.
C28_RomNew ==
    out.op = "rom_new" =>
        /\ ~out.panic
        /\ (BadTag(pre) \/ BadVersion(pre) \/ Short(pre)) => out.ret = "WrongRomFormat"
        /\ out.ret = "Ok" =>
              /\ ~Short(pre)
              /\ shadow.prg_rom.to - shadow.prg_rom.from
                    = pre.head[5] * PRG_ROM_PAGE_SIZE
              /\ shadow.chr_rom.to - shadow.chr_rom.from
                    = pre.head[6] * CHR_ROM_PAGE_SIZE
              /\ shadow.chr_rom.to <= pre.len

(***************************************************************************)
(* ppu/tile_reader.rs: TileReader, [tile, x, y, upper, lower]; tile is the *)
(* 16-byte slice, tile[i] of the source is tile[i + 1] here.               *)
(***************************************************************************)
TILE_WIDTH == \H08
TILE_HEIGHT == \H08

\* TileReader::new(tile)
TileReader_new(tile) ==
    [tile |-> tile, x |-> 0, y |-> 0,
     upper |-> tile[0 + 1], lower |-> tile[TILE_HEIGHT + 1]]

Some(val) == [some |-> TRUE, val |-> val]
None == [some |-> FALSE, val |-> 0]

\* next() taking the high bit of a pixel from the lower plane
TileReader_next_planes_swapped(t) ==
    LET wrap == t.x = TILE_WIDTH
        y1 == IF wrap THEN t.y + 1 ELSE t.y
        x1 == IF wrap THEN 0 ELSE t.x
    IN  IF wrap /\ y1 = TILE_HEIGHT
        THEN [reader |-> [t EXCEPT !.x = x1, !.y = y1], ret |-> None]
        ELSE
          LET upper == IF wrap THEN t.tile[y1 + 1] ELSE t.upper
              lower == IF wrap THEN t.tile[y1 + TILE_HEIGHT + 1] ELSE t.lower
              val == Or(And(lower, \H80) \div 64, And(upper, \H80) \div 128)
          IN  [reader |-> [t EXCEPT !.x = x1 + 1, !.y = y1,
                                    !.upper = (upper * 2) % 256,
                                    !.lower = (lower * 2) % 256],
               ret |-> Some(val)]

\* Iterator::next for TileReader: [reader, ret]
TileReader_next(t) ==
    LET wrap == t.x = TILE_WIDTH
        y1 == IF wrap THEN t.y + 1 ELSE t.y
        x1 == IF wrap THEN 0 ELSE t.x
    IN  IF wrap /\ y1 = TILE_HEIGHT
        THEN [reader |-> [t EXCEPT !.x = x1, !.y = y1], ret |-> None]
        ELSE
          LET upper == IF wrap THEN t.tile[y1 + 1] ELSE t.upper
              lower == IF wrap THEN t.tile[y1 + TILE_HEIGHT + 1] ELSE t.lower
              val == Or(And(upper, \H80) \div 64, And(lower, \H80) \div 128)
          IN  [reader |-> [t EXCEPT !.x = x1 + 1, !.y = y1,
                                    !.upper = (upper * 2) % 256,
                                    !.lower = (lower * 2) % 256],
               ret |-> Some(val)]

(***************************************************************************)
(* A TileReader over a tile, next() called until past the first None.      *)
(***************************************************************************)
Tiles ==
    {<<\H00, \H55, \H49, \H11, \H21, \H41, \H81, \HFF,
       \HAA, \H24, \H88, \H10, \H20, \H40, \H80, \H0F>>,
     [i \in 1 .. 16 |-> \H00],
     [i \in 1 .. 16 |-> \HFF],
     [i \in 1 .. 16 |-> IF i <= 8 THEN \HFF ELSE \H00],
     [i \in 1 .. 16 |-> IF i <= 8 THEN \H00 ELSE \HFF],
     [i \in 1 .. 16 |-> (i * 37 + 11) % 256],
     [i \in 1 .. 16 |-> IF i = 1 THEN \H80 ELSE IF i = 16 THEN \H01 ELSE \H00]}

\* shadow: the reader and the values it has yielded so far
InitTile ==
    /\ \E tile \in Tiles : shadow = [reader |-> TileReader_new(tile), vals |-> <<>>]
    /\ pre = shadow.reader
    /\ out = NoCall
    /\ nticks = 0
    /\ nops = 0
    /\ bus = Bus_new(Cartridge)
    /\ core = NoveCore_new

\* tile_reader.next()
TileNext ==
    /\ nops < MaxNext
    /\ LET r == TileReader_next(shadow.reader) IN
         /\ shadow' = [reader |-> r.reader,
                       vals |-> IF r.ret.some THEN Append(shadow.vals, r.ret.val)
                                ELSE shadow.vals]
         /\ out' = [op |-> "next", addr |-> NoVal, val |-> NoVal,
                    ret |-> r.ret, panic |-> FALSE]
    /\ pre' = shadow.reader
    /\ nops' = nops + 1
    /\ UNCHANGED <<bus, core, nticks>>

NextTile == TileNext

SpecTile == InitTile /\ [][NextTile]_vars

\* bit b of a byte
BitOf(b, byte) == (byte \div (2 ^ b)) % 2

\* the colour value of the pixel in row r, column c of a tile
Pixel(tile, r, c) == 2 * BitOf(7 - c, tile[r + 1]) + BitOf(7 - c, tile[r + 8 + 1])

\* C29: for every 16-byte tile, iterating a TileReader yields exactly 64
\* values and then None; the k-th value (row r = k div 8, column c = k mod
\* 8) is 2 * bit(7-c) of tile[r] + bit(7-c) of tile[r+8], so every value is
\* in 0..3 and pixels come row by row, most significant bit first.
C29_TileReader ==
    out.op = "next" =>
        LET k == nops - 1 IN
          /\ k < 64 =>
                /\ out.ret = Some(Pixel(pre.tile, k \div 8, k % 8))
                /\ out.ret.val \in 0 .. 3
                /\ Len(shadow.vals) = k + 1
          /\ k = 64 => out.ret = None /\ Len(shadow.vals) = 64

\* the tile of the source's test read to its end: 64 values, all four
\* colours among them, then None
C29_Witness ==
    /\ out.op = "next" /\ nops = 65 /\ out.ret = None
    /\ Len(shadow.vals) = 64
    /\ {shadow.vals[i] : i \in 1 .. 64} = 0 .. 3
    /\ shadow.vals[64] = 3 /\ shadow.vals[1] = 1

(***************************************************************************)
(* ppu/frame.rs: Frame, [buffer]; the buffer is a sparse zero-initialised  *)
(* array of BUFFER_SIZE bytes.                                             *)
(***************************************************************************)
WIDTH == \H100                               \* 256
HEIGHT == \HF0                               \* 240
TILES_PER_ROW == WIDTH \div TILE_WIDTH
BUFFER_SIZE == WIDTH * HEIGHT
TILE_SIZE == TILE_WIDTH * TILE_HEIGHT

\* Frame::new()
Frame_new == [buffer |-> Zeroes]

\* buffer[idx .. idx + Len(values)].copy_from_slice(values)
copy_from_slice(buffer, idx, values) ==
    LET span == idx .. (idx + Len(values) - 1)
        whole == [j \in DOMAIN buffer \cup span |->
                     IF j \in span THEN values[j - idx + 1] ELSE buffer[j]]
    IN  [j \in {i \in DOMAIN whole : whole[i] # 0} |-> whole[j]]

\* Frame::set_tile(x, y, values): [frame, panic]; the u32 product and
\* sum do not wrap for the positions of a frame
Frame_set_tile(f, x, y, values) ==
    IF Len(values) # TILE_SIZE THEN [frame |-> f, panic |-> TRUE]
    ELSE
      LET idx == ((y * TILES_PER_ROW) + x) * TILE_SIZE IN
        IF idx + TILE_SIZE > BUFFER_SIZE THEN [frame |-> f, panic |-> TRUE]
        ELSE [frame |-> [f EXCEPT !.buffer =
                            copy_from_slice(@, idx, SubSeq(values, 1, TILE_SIZE))],
              panic |-> FALSE]

(***************************************************************************)
(* A new frame, tiles set at its corners and next to them.                 *)
(***************************************************************************)
TileXs == {0, 1, 31}
TileYs == {0, 1, 29}

\* the 64 values TileReader yields for a tile
TileValues(tile) == [k \in 1 .. TILE_SIZE |-> Pixel(tile, (k - 1) \div 8, (k - 1) % 8)]

FrameTiles ==
    {TileValues(<<\H00, \H55, \H49, \H11, \H21, \H41, \H81, \HFF,
                  \HAA, \H24, \H88, \H10, \H20, \H40, \H80, \H0F>>),
     TileValues([i \in 1 .. 16 |-> \HFF]),
     TileValues([i \in 1 .. 16 |-> IF i = 1 THEN \H80 ELSE \H00])}

\* shadow: the frame
InitFrame ==
    /\ shadow = Frame_new
    /\ pre = shadow
    /\ out = NoCall
    /\ nticks = 0
    /\ nops = 0
    /\ bus = Bus_new(Cartridge)
    /\ core = NoveCore_new

\* frame.set_tile(x, y, &values); a panic ends the run
SetTile ==
    /\ ~out.panic
    /\ nops < MaxSetTiles
    /\ \E x \in TileXs, y \in TileYs, values \in FrameTiles :
          LET r == Frame_set_tile(shadow, x, y, values) IN
            /\ shadow' = r.frame
            /\ out' = [op |-> "set_tile", addr |-> [x |-> x, y |-> y],
                       val |-> values, ret |-> NoVal, panic |-> r.panic]
    /\ pre' = shadow
    /\ nops' = nops + 1
    /\ UNCHANGED <<bus, core, nticks>>

NextFrame == SetTile

SpecFrame == InitFrame /\ [][NextFrame]_vars

\* the buffer indices of the 8x8 pixel block of tile (x, y)
Block(x, y) ==
    {(8 * y + r) * 256 + (8 * x + c) : r \in 0 .. 7, c \in 0 .. 7}

\* C30: for every tile position x in 0..31, y in 0..29 and every 64-value
\* tile, Frame::set_tile(x, y, values) stores values[8*r + c] at pixel
\* column 8*x + c, row 8*y + r, that is at buffer index
\* (8*y + r) * 256 + (8*x + c), for r, c in 0..7, stays inside the 256*240
\* buffer and leaves every pixel outside that 8x8 block unchanged.
C30_SetTile ==
    out.op = "set_tile" =>
        /\ ~out.panic
        /\ \A r \in 0 .. 7, c \in 0 .. 7 :
              Rd(shadow.buffer, (8 * out.addr.y + r) * 256 + (8 * out.addr.x + c))
                  = out.val[8 * r + c + 1]
        /\ DOMAIN shadow.buffer \subseteq 0 .. (256 * 240 - 1)
        /\ \A i \in (DOMAIN shadow.buffer \cup DOMAIN pre.buffer)
                        \ Block(out.addr.x, out.addr.y) :
              Rd(shadow.buffer, i) = Rd(pre.buffer, i)

(***************************************************************************)
(* core/ops.rs: Displacement::displace applied to a byte and a carry, each *)
(* call taking the byte and the carry the call before it returned.         *)
(* shadow is [v, c, hist]: the byte, the carry and the calls made.         *)
(***************************************************************************)
Displacements ==
    {[kind |-> k, dir |-> d] : k \in {"Shift", "Rotation"}, d \in {"Left", "Right"}}

InitDisplace ==
    /\ \E v \in 0 .. 255, c \in BOOLEAN : shadow = [v |-> v, c |-> c, hist |-> <<>>]
    /\ pre = shadow
    /\ out = NoCall
    /\ nticks = 0
    /\ nops = 0
    /\ bus = Bus_new(Cartridge)
    /\ core = NoveCore_new

\* Rotation(dir, c).displace(v) or Shift(dir).displace(v)
Displace ==
    /\ nops < MaxDisplace
    /\ \E m \in Displacements :
          LET d == displace(m.kind, m.dir, shadow.c, shadow.v) IN
            /\ shadow' = [v |-> d.v, c |-> d.c,
                          hist |-> Append(shadow.hist,
                                          [kind |-> m.kind, dir |-> m.dir,
                                           val |-> shadow.v, carry |-> shadow.c,
                                           v |-> d.v, c |-> d.c])]
            /\ out' = [op |-> "displace", addr |-> m, val |-> shadow.v,
                       ret |-> d, panic |-> FALSE]
    /\ pre' = shadow
    /\ nops' = nops + 1
    /\ UNCHANGED <<bus, core, nticks>>

NextDisplace == Displace

SpecDisplace == InitDisplace /\ [][NextDisplace]_vars

\* what the last call must have returned
Displaced(h) ==
    LET bit7 == And(h.val, \H80) # 0
        bit0 == And(h.val, \H01) # 0
        left == (h.val * 2) % 256
        right == h.val \div 2
    IN  CASE h.kind = "Shift" /\ h.dir = "Left" -> h.v = left /\ h.c = bit7
          [] h.kind = "Shift" /\ h.dir = "Right" -> h.v = right /\ h.c = bit0
          [] h.kind = "Rotation" /\ h.dir = "Left" ->
                h.v = Or(left, IF h.carry THEN 1 ELSE 0) /\ h.c = bit7
          [] h.kind = "Rotation" /\ h.dir = "Right" ->
                h.v = Or(right, IF h.carry THEN \H80 ELSE 0) /\ h.c = bit0

\* C31: for every byte v and carry-in c, displace returns: Shift Left
\* (v<<1 mod 256, bit7(v)); Shift Right (v>>1, bit0(v)); Rotation Left
\* ((v<<1 mod 256) | c, bit7(v)); Rotation Right ((v>>1) | (c ? 0x80 : 0),
\* bit0(v)); so rotating left with carry c and then rotating the result
\* right with the carry that came out returns the byte v and the carry c.
C31_Displace ==
    out.op = "displace" =>
        LET n == Len(shadow.hist) IN
          /\ Displaced(shadow.hist[n])
          /\ shadow.hist[n].v \in 0 .. 255
          /\ (/\ n >= 2
              /\ shadow.hist[n - 1].kind = "Rotation" /\ shadow.hist[n - 1].dir = "Left"
              /\ shadow.hist[n].kind = "Rotation" /\ shadow.hist[n].dir = "Right")
                => /\ shadow.v = shadow.hist[n - 1].val
                   /\ shadow.c = shadow.hist[n - 1].carry

\* a byte with bit 7 set and bit 0 clear rotated left with the carry set,
\* then right: the byte and the carry are back
C31_Witness ==
    /\ out.op = "displace" /\ Len(shadow.hist) = 2
    /\ shadow.hist[1].kind = "Rotation" /\ shadow.hist[1].dir = "Left"
    /\ shadow.hist[2].kind = "Rotation" /\ shadow.hist[2].dir = "Right"
    /\ shadow.hist[1].val = \HAA /\ shadow.hist[1].carry
    /\ shadow.hist[1].v = \H55 /\ shadow.hist[2].carry
    /\ shadow.v = \HAA /\ shadow.c

(***************************************************************************)
(* SpecStatus: NoveCore::reset on a new core whose reset vector points at  *)
(* a program, then the turns of the run loop over that program.            *)
(***************************************************************************)
\* NOP, SEC, CLC, SEI, CLV, PHP PLP, LDA # PHA PLP, ADC #, SBC #, CMP #
StatusSnippets ==
    {<<\HEA>>, <<\H38>>, <<\H18>>, <<\H78>>, <<\HB8>>, <<\H08, \H28>>,
     <<\HA9, \HDF, \H48, \H28>>, <<\HA9, \HFF, \H48, \H28>>,
     <<\H69, \H7F>>, <<\HE9, \H01>>, <<\HC9, \H80>>}

StatusPrograms == {p \o q : p, q \in StatusSnippets}

StatusStart == \H0600

InitStatus ==
    /\ \E prog \in StatusPrograms :
          core = [NoveCore_new EXCEPT
                     !.memory = Wr(RunMemory(StatusStart, prog),
                                   PC_START_ADDR + 1, StatusStart \div 256)]
    /\ pre = core
    /\ out = NoCall
    /\ nticks = 0
    /\ nops = 0
    /\ shadow = NoVal
    /\ bus = Bus_new(Cartridge)

\* core.reset(), the first call on the core
StatusReset ==
    /\ out.op = "new"
    /\ LET r == reset(core) IN
        /\ core' = r.core
        /\ out' = [op |-> "reset", addr |-> NoVal, val |-> NoVal,
                   ret |-> r.ret, panic |-> r.panic]
    /\ pre' = core
    /\ nops' = nops + 1
    /\ UNCHANGED <<bus, nticks, shadow>>

\* one turn of the run loop after the reset
StatusStep ==
    /\ out.op # "new"
    /\ ~out.panic
    /\ out.ret \notin {"halt", "WrongOpCode"}
    /\ nops < MaxStatusOps
    /\ \E checked \in BOOLEAN :
          LET r == step(core, checked) IN
          /\ core' = r.core
          /\ out' = [op |-> "step", addr |-> core.pc, val |-> r.val,
                     ret |-> r.ret, panic |-> r.panic]
    /\ pre' = core
    /\ nops' = nops + 1
    /\ UNCHANGED <<bus, nticks, shadow>>

NextStatus == StatusReset \/ StatusStep

SpecStatus == InitStatus /\ [][NextStatus]_vars

\* C32: in every CPU state reachable by reset() followed by any sequence
\* of executed instructions (PHP, PLP, flag set and clear instructions and
\* arithmetic among them), bit 5 (One) of P is 1.
C32_BitFive ==
    (out.op \in {"reset", "step"} /\ ~out.panic) => is_raised(core.ps, StatusFlag.One)

(***************************************************************************)
(* SpecPrg: reads of 0x8000-0xFFFF on a bus whose cartridge has 16 KiB or  *)
(* 32 KiB of PRG ROM.                                                      *)
(***************************************************************************)
PrgSizes == {HALF_ROM_SIZE, 2 * HALF_ROM_SIZE}

PrgAddrs ==
    {\H8000, \H8001, \H80FF, \H8100, \HBFFF, \HC000, \HC001, \HC0FF, \HC100,
     \HFFFA, \HFFFC, \HFFFE, \HFFFF}
        \cup {\H8000 + (1365 * k) : k \in 1 .. 23}

InitPrg ==
    /\ \E n \in PrgSizes : bus = Bus_new([Cartridge EXCEPT !.prg_rom = n])
    /\ pre = bus
    /\ out = NoCall
    /\ nticks = 0
    /\ nops = 0
    /\ core = NoveCore_new
    /\ shadow = NoVal

PrgRead == \E a \in PrgAddrs : Read(a, MaxPrgReads)

NextPrg == PrgRead

SpecPrg == InitPrg /\ [][NextPrg]_vars

\* C33: with exactly 16 KiB of PRG ROM, for every address a in
\* 0xC000-0xFFFF read(a) = read(a - 0x4000) = prg[a - 0xC000]; with 32 KiB,
\* read(a) = prg[a - 0x8000] for every a in 0x8000-0xFFFF; reads of PRG ROM
\* never change any state.
C33_PrgMirror ==
    (out.op = "read" /\ out.addr \in \H8000 .. \HFFFF) =>
        /\ ~out.panic
        /\ bus = pre
        /\ (bus.prg_rom = \H4000 /\ out.addr >= \HC000) =>
              /\ out.ret = PrgByte(out.addr - \HC000)
              /\ LET below == Bus_read(bus, out.addr - \H4000) IN
                   ~below.panic /\ below.ret = out.ret /\ below.bus = bus
        /\ (bus.prg_rom = \H4000 /\ out.addr < \HC000) =>
              out.ret = PrgByte(out.addr - \H8000)
        /\ bus.prg_rom = \H8000 => out.ret = PrgByte(out.addr - \H8000)

\* a read of the mirror of a 16 KiB PRG ROM
C33_Witness ==
    /\ out.op = "read" /\ ~out.panic
    /\ bus.prg_rom = \H4000 /\ out.addr = \HFFFC
    /\ out.ret = PrgByte(\H3FFC) /\ out.ret # PrgByte(\H7FFC)

\* C34: for every DATA write with ADDR = a, afterwards ADDR is
\* (a + s) mod 0x4000 with s = 32 if CTRL bit 2 is set and 1 otherwise;
\* with a in 0x0000-0x1FFF the write changes nothing but ADDR; with a in
\* the VRAM or the palette range one byte of that region takes the value
\* and nothing else changes; the ADDR toggle is not changed.
C34_DataWrite ==
    (out.op = "write" /\ out.addr = DATA) =>
        LET a == AddressRegister_get(pre.ppu.addr)
            s == IF And(pre.ppu.ctrl, \H04) # 0 THEN 32 ELSE 1
            p == bus.ppu
        IN  /\ ~out.panic
            /\ AddressRegister_get(p.addr) = (a + s) % \H4000
            /\ p.addr.ptr = pre.ppu.addr.ptr
            /\ p = [pre.ppu EXCEPT !.addr = p.addr, !.vram = p.vram,
                                   !.palette = p.palette]
            /\ bus = [pre EXCEPT !.ppu = p]
            /\ a <= \H1FFF => p.vram = pre.ppu.vram /\ p.palette = pre.ppu.palette
            /\ a \in \H2000 .. \H3EFF =>
                  /\ p.palette = pre.ppu.palette
                  /\ \E i \in 0 .. VRAM_SIZE - 1 : p.vram = Wr(pre.ppu.vram, i, out.val)
            /\ a >= \H3F00 =>
                  /\ p.vram = pre.ppu.vram
                  /\ \E i \in 0 .. PALETTE_SIZE - 1 :
                        p.palette = Wr(pre.ppu.palette, i, out.val)

(***************************************************************************)
(* SpecPpu: PPU dots interleaved with CTRL writes, STATUS reads, ADDR      *)
(* writes and DATA reads and writes through the bus.  The run starts at    *)
(* the first dot of a frame, just before the vertical blank, in it, or at  *)
(* its last dot, with the flags and the interrupt cell the dots and        *)
(* register accesses up to there have left.                                *)
(***************************************************************************)
PpuStarts ==
    {[scanline |-> 0, cycles |-> 0, ctrl |-> \H00, status |-> \H00, nmi |-> "None"],
     [scanline |-> 240, cycles |-> 340, ctrl |-> \H00, status |-> \H00, nmi |-> "None"],
     [scanline |-> 240, cycles |-> 340, ctrl |-> GenerateNMI, status |-> \H00,
      nmi |-> "None"],
     [scanline |-> 241, cycles |-> 5, ctrl |-> GenerateNMI,
      status |-> VerticalBlankStarted, nmi |-> "NMI"],
     [scanline |-> 241, cycles |-> 5, ctrl |-> \H00,
      status |-> VerticalBlankStarted, nmi |-> "None"],
     [scanline |-> 261, cycles |-> 340, ctrl |-> GenerateNMI,
      status |-> VerticalBlankStarted, nmi |-> "NMI"],
     [scanline |-> 261, cycles |-> 340, ctrl |-> GenerateNMI, status |-> \H00,
      nmi |-> "None"],
     [scanline |-> 261, cycles |-> 340, ctrl |-> \H00,
      status |-> VerticalBlankStarted, nmi |-> "None"]}

PpuAddrs == {\H0000, \H2FFF, \H3EFF}

PpuCtrls == {\H00, \H84}

PpuAddrBytes == {\H30, \H00}

PpuData == \H2A

InitPpu ==
    /\ \E s \in PpuStarts, a \in PpuAddrs :
          bus = [Bus_new(Cartridge) EXCEPT
                    !.ppu.scanline = s.scanline, !.ppu.cycles = s.cycles,
                    !.ppu.ctrl = s.ctrl, !.ppu.status = s.status,
                    !.ppu.cpu_interrupt = s.nmi,
                    !.ppu.addr = AddressRegister_set(@, a)]
    /\ pre = bus
    /\ out = NoCall
    /\ nticks = 0
    /\ nops = 0
    /\ core = NoveCore_new
    /\ shadow = NoVal

PpuDot == Tick(MaxPpuTicks)

CtrlWrite == \E v \in PpuCtrls : Write(CTRL, v, MaxPpuOps)

StatusRead == Read(STATUS, MaxPpuOps)

PpuAddrWrite == \E v \in PpuAddrBytes : Write(ADDR, v, MaxPpuOps)

PpuDataRead == Read(DATA, MaxPpuOps)

PpuDataWrite == Write(DATA, PpuData, MaxPpuOps)

NextPpu ==
    PpuDot \/ CtrlWrite \/ StatusRead \/ PpuAddrWrite \/ PpuDataRead \/ PpuDataWrite

SpecPpu == InitPpu /\ [][NextPpu]_vars

\* C35: for every sequence of CTRL writes, ADDR writes, STATUS reads, DATA
\* reads and DATA writes the invalid-access panic of read_data and
\* write_to_data is never reached: ADDR is at most 0x3FFF and a DATA access
\* with ADDR anywhere below the palette, 0x3000-0x3EFF included, completes.
C35_NoInvalidAccess ==
    (out.op \in {"read", "write"} /\ out.addr = DATA) =>
        LET a == AddressRegister_get(pre.ppu.addr) IN
          /\ a <= LIMIT
          /\ a < PALETTE_START => ~out.panic

\* C36: if the interrupt cell still holds NMI when the tick wraps scanline
\* 262 back to 0, that tick stores None in the cell; so the cell holds NMI
\* only while the scanline is in 241..261.
C36_NmiCleared ==
    /\ (out.op = "tick" /\ pre.ppu.scanline = 261 /\ bus.ppu.scanline # 261) =>
          /\ bus.ppu.scanline = 0
          /\ bus.ppu.cpu_interrupt = "None"
          /\ out.ret = TRUE
    /\ bus.ppu.cpu_interrupt = "NMI" => bus.ppu.scanline \in 241 .. 261

\* the tick at the last dot of the frame finds NMI in the cell
C36_Witness ==
    /\ out.op = "tick"
    /\ pre.ppu.scanline = 261 /\ pre.ppu.cpu_interrupt = "NMI"
    /\ bus.ppu.scanline = 0 /\ bus.ppu.cpu_interrupt = "None"

\* C38: in every PPU state reached by ticks, CTRL writes, STATUS reads and
\* DATA accesses the scanline is in 0..261, the dot is in 0..340 and the
\* vblank flag is raised only while the scanline is in 241..261.
C38_PpuInvariant ==
    /\ bus.ppu.scanline \in 0 .. 261
    /\ bus.ppu.cycles \in 0 .. 340
    /\ is_raised(bus.ppu.status, VerticalBlankStarted) =>
          bus.ppu.scanline \in 241 .. 261

\* the frame wraps with the vblank flag still raised, after a register
\* access in the vertical blank
C38_Witness ==
    /\ out.op = "tick" /\ nops >= 1
    /\ is_raised(pre.ppu.status, VerticalBlankStarted)
    /\ pre.ppu.scanline = 261 /\ bus.ppu.scanline = 0 /\ bus.ppu.cycles = 0
    /\ ~is_raised(bus.ppu.status, VerticalBlankStarted)

\* C37: after any sequence of AddressRegister update, inc and reset
\* calls from the default register, get() is at most 0x3FFF.
C37_AddrInRange == AddressRegister_get(bus.ppu.addr) <= \H3FFF

\* a write of a high byte above 0x3F and then an inc that carries past
\* 0x3FFF
C37_Witness ==
    /\ out.op = "inc" /\ shadow.out.op = "update"
    /\ shadow.pre.ppu.addr.ptr = "Hi" /\ shadow.out.val = \HFF
    /\ AddressRegister_get(pre.ppu.addr) = \H3FFF
    /\ out.val = \H20
    /\ AddressRegister_get(bus.ppu.addr) = \H001F

(***************************************************************************)
(* SpecMem: reads and writes of bytes and words on the flat CPU memory     *)
(* (core/memory.rs Memory; memory/cpu_mem.rs CpuMem is the same array      *)
(* behind the Memory trait).  shadow is the call before the last one.      *)
(***************************************************************************)
MemAddrs == {\H0000, \H0001, \H00FF, \H0100, \H7FFF, \H8000, \HFFFC, \HFFFE, \HFFFF}

MemVals == {\H5A, \HC3}

MemWords == {\H8000, \H12EF}

InitMem ==
    /\ core = NoveCore_new
    /\ pre = core
    /\ out = NoCall
    /\ nticks = 0
    /\ nops = 0
    /\ bus = Bus_new(Cartridge)
    /\ shadow = out

\* memory.read(addr); a panic ends the run
MemRead ==
    /\ ~out.panic
    /\ nops < MaxMemOps
    /\ \E addr \in MemAddrs :
          LET r == Memory_read(core.memory, addr) IN
            out' = [op |-> "read", addr |-> addr, val |-> NoVal,
                    ret |-> r.ret, panic |-> r.panic]
    /\ pre' = core
    /\ shadow' = out
    /\ nops' = nops + 1
    /\ UNCHANGED <<core, bus, nticks>>

\* memory.write(addr, value)
MemWrite ==
    /\ ~out.panic
    /\ nops < MaxMemOps
    /\ \E addr \in MemAddrs, value \in MemVals :
          LET r == Memory_write(core.memory, addr, value) IN
            /\ core' = [core EXCEPT !.memory = r.mem]
            /\ out' = [op |-> "write", addr |-> addr, val |-> value,
                       ret |-> r.ret, panic |-> r.panic]
    /\ pre' = core
    /\ shadow' = out
    /\ nops' = nops + 1
    /\ UNCHANGED <<bus, nticks>>

\* memory.read_u16(addr)
MemReadWord ==
    /\ ~out.panic
    /\ nops < MaxMemOps
    /\ \E addr \in MemAddrs :
          LET r == Memory_read_u16(core.memory, addr) IN
            out' = [op |-> "read_u16", addr |-> addr, val |-> NoVal,
                    ret |-> r.ret, panic |-> r.panic]
    /\ pre' = core
    /\ shadow' = out
    /\ nops' = nops + 1
    /\ UNCHANGED <<core, bus, nticks>>

\* memory.write_u16(addr, value)
MemWriteWord ==
    /\ ~out.panic
    /\ nops < MaxMemOps
    /\ \E addr \in MemAddrs, value \in MemWords :
          LET r == Memory_write_u16(core.memory, addr, value) IN
            /\ core' = [core EXCEPT !.memory = r.mem]
            /\ out' = [op |-> "write_u16", addr |-> addr, val |-> value,
                       ret |-> r.ret, panic |-> r.panic]
    /\ pre' = core
    /\ shadow' = out
    /\ nops' = nops + 1
    /\ UNCHANGED <<bus, nticks>>

NextMem == MemRead \/ MemWrite \/ MemReadWord \/ MemWriteWord

SpecMem == InitMem /\ [][NextMem]_vars

\* C39: the flat CPU memory covers the whole 16-bit address space: for
\* every address a in 0x0000..0xFFFF write(a, v) followed by read(a)
\* returns v without aborting, and read_u16 and write_u16 at 0xFFFE and at
\* 0xFFFF, whose high byte wraps to 0x0000, complete.
C39_WholeAddressSpace ==
    /\ out.op \in {"read", "write", "read_u16", "write_u16"} => ~out.panic
    /\ (out.op = "read" /\ shadow.op = "write" /\ shadow.addr = out.addr) =>
          out.ret = shadow.val
    /\ (out.op = "write_u16" /\ out.addr = \HFFFF) =>
          /\ Rd(core.memory, \HFFFF) = out.val % 256
          /\ Rd(core.memory, \H0000) = out.val \div 256
    /\ (out.op = "read_u16" /\ out.addr = \HFFFF) =>
          out.ret = Rd(core.memory, \HFFFF) + 256 * Rd(core.memory, \H0000)

(***************************************************************************)
(* SpecMirror: DATA reads and writes with ADDR in the nametables, on the   *)
(* PPU of a cartridge whose header byte 6 gives each of the mirroring      *)
(* tags.                                                                   *)
(***************************************************************************)
MirrorFlags == {\H00, \H01, \H08, \H09}

MirrorAddrs ==
    {\H2000, \H23FF, \H2400, \H27FF, \H2800, \H2BFF, \H2C00, \H2FDF, \H2FFE}

InitMirror ==
    /\ \E f \in MirrorFlags, a \in MirrorAddrs, c \in DataStrides :
          bus = DataBus(Mirroring_from(f), a, c, \H00, Zeroes)
    /\ pre = bus
    /\ out = NoCall
    /\ nticks = 0
    /\ nops = 0
    /\ core = NoveCore_new
    /\ shadow = NoVal

MirrorRead == Read(DATA, MaxMirrorOps)

MirrorWrite == \E v \in DataVals : Write(DATA, v, MaxMirrorOps)

NextMirror == MirrorRead \/ MirrorWrite

SpecMirror == InitMirror /\ [][NextMirror]_vars

\* C40: for every mirroring tag the cartridge loader can produce
\* (Vertical, Horizontal, FourScreen) and every address a in 0x2000-0x2FFF
\* the index mirror_vram(a) is below 2048, so a DATA read or write at a
\* never indexes outside the 2 KiB VRAM array.
C40_VramIndex ==
    ( /\ out.op \in {"read", "write"} /\ out.addr = DATA
      /\ AddressRegister_get(pre.ppu.addr) \in \H2000 .. \H2FFF ) =>
        /\ mirror_vram(pre.ppu, AddressRegister_get(pre.ppu.addr)) < 2048
        /\ ~out.panic

====
